---- MODULE Spec2Model ----
(***************************************************************************)
(* Verification model of the Fynix Library Builder synchronization engine: *)
(* the EPG importer (helpers/defaultepggrabber.py), the listing            *)
(* synchronizers (helpers/updatecats.py, updatemovies.py, ...), the        *)
(* metadata enrichers (helpers/updatemoviemetadata.py,                     *)
(* updateseriesmetadata.py) and the drivers of backend.py.                 *)
(*                                                                         *)
(* Each subsystem has its own specification (SpecEpg, SpecVod, ...); a     *)
(* specification leaves the variables of the other subsystems unchanged.   *)
(* Time is counted in seconds and advances in steps of half a TTL.         *)
(***************************************************************************)
EXTENDS Integers, Sequences, FiniteSets, TLC

VARIABLES
    now,          \* wall clock, seconds (datetime.now() / time.time())
    \* ---- defaultepggrabber.py ----
    epg_data,     \* committed rows of table epg_data (UNIQUE channel_id,start_time,title)
    epg_cache,    \* cache/epg_xml/<md5(url)>.pkl : NoRecord or [mtime, xml]
    epg_pc,       \* position of main(): "idle" or "cleared" (after DELETE+commit)
    epg_entries,  \* parsed entries held by a running insert_epg_entries
    epg_before,   \* epg_data when the current/last run of main() started
    epg_outcome,  \* how the last run of main() ended
    epg_sent,     \* requests sent by the last run of main(): subset of {"head","get"}
    epg_steps,    \* the probe's result and the cache lookup of the last run, in order
    \* ---- backend.py drivers ----
    drv_pc,       \* "idle", "running" (inside the for loop), "done"
    drv_scripts,  \* scripts_to_run of the current call
    drv_i,        \* index of the next script to run
    drv_ran,      \* results of the scripts called so far, in order
    drv_cb,       \* whether a progress_callback was passed
    drv_result,   \* "none", "True", "False", or "raised" (exception left the driver)
    drv_calls,    \* number of driver calls made so far
    \* ---- cache files ----
    cat_cache,    \* cache/categories/<md5(url_username_ct)>.pkl, per content type
    mov_cache,    \* cache/movie_metadata/<stream_id>.pkl, per stream id
    cache_read,   \* the last cache read: what was on disk, its age, what came back
    \* ---- updatecats.py ----
    categories,   \* committed rows of table categories
    cat_remote,   \* what the server answers per content type (fixed per behaviour)
    cat_pc,       \* 0 = idle, i = about to process content_types[i]
    cat_tot,      \* (total_downloaded, total_new, total_existing) so far
    cat_result,   \* "none", "skipped", "running", or the returned triple
    cat_resp,     \* per content type, how the current call got its data
    cat_wrote,    \* content types whose cache file the current call wrote
    cat_before,   \* categories when the current call started
    cat_probed,   \* whether the current call sent the probe request
    cat_calls,    \* number of synchronizer calls so far
    cat_missed,   \* the scopes that were a cache miss when the current call began
    \* --- VOD synchronizer (helpers/updatemovies.py) ---
    vod_streams,  \* table vod_streams: rows [id, server_id, stream_id]
    vod_cache,    \* the cache file of the server's full VOD listing
    vod_remote,   \* what the server answers to get_vod_streams
    vod_runs,     \* calls of download_all_streams so far
    vod_synced,   \* calls that took a non-empty listing through commit
    vod_result,   \* (downloaded, new, existing) of the last call
    \* --- title enrichment (helpers/updatemoviemetadata.py) ---
    mm_movies,    \* table vod_streams: rows [id, server_id, stream_id, tmdb]
    mm_remote,    \* per server: what get_vod_info answers
    mm_how,       \* per candidate: how its save_cache call ends
    mm_phase,     \* "idle", "running", "done": where main() is
    mm_cands,     \* movies: the candidates main() read
    mm_pc,        \* per candidate: where its process_movie call is
    mm_meta,      \* per candidate: the local variable metadata
    mm_lock,      \* db_lock: 0 when free, else the candidate holding it
    mm_start,     \* rows and cache as they were when main() started
    \* --- series enrichment (helpers/updateseriesmetadata.py) ---
    sm_series,    \* table series: rows [id, server_id, series_id, last_modified, tmdb]
    sm_episodes,  \* table episodes: rows [id, server_id, series_id, episode_id]
    sm_cache,     \* per series id: the cache file <series_id>.pkl
    sm_remote,    \* what the servers answer to get_series_info
    sm_phase,     \* "idle", "running", "done": where main() is
    sm_passes,    \* finished passes
    sm_cands,     \* series_list: the candidates main() read
    sm_pc,        \* per candidate: where its process_series call is
    sm_meta,      \* per candidate: the local variable metadata
    sm_todo,      \* per candidate: episodes_to_insert
    sm_counts,    \* per candidate: (updated_series, inserted_episodes)
    sm_dbw,       \* SQLite's write lock: 0 when free, else the candidate holding it
    sm_runs,      \* how often process_series was entered for each candidate of the pass
    sm_sent,      \* the detail requests process_series has sent for each candidate of the pass
    sm_totals,    \* main(): <<total_updated_series, total_inserted_episodes>>
    sm_has_errors,\* main(): has_errors
    \* --- category of an inserted listing record (insert_stream, insert_series) ---
    cm_in,        \* category_id of the listing record
    cm_cats,      \* the server's rows of table categories: [id, category_id, content_type]
    cm_out,       \* what the last insert did
    \* --- one fetch of the API client ---
    ft_kind,      \* "movie", "series": a detail fetch; "listing": a listing fetch
    ft_env,       \* per attempt: what the request meets
    ft_build,     \* which exception response.json() raises for a non-JSON body
    ft_attempts,  \* requests sent so far
    ft_delay,     \* the local variable delay
    ft_waits,     \* the time.sleep(delay) calls so far
    ft_result,    \* "pending", "ok", "other" (a non-dict value returned), "failed"
    \* --- one synchronizer run over the active servers ---
    sv_sync,      \* which synchronizer runs: "cats", "vod", "series", "live"
    sv_env,       \* per server: what it answers to the probe and to the listing request
    sv_cache,     \* per server: the listing cache record(s) of this synchronizer
    sv_start,     \* sv_cache when the run began
    sv_rows,      \* the rows of the synchronizer's table
    sv_pc,        \* "idle", "loop", "done": where download_all_* is
    sv_i,         \* position of the `for server in servers` loop
    sv_visited,   \* the servers whose loop iteration has run, in order
    sv_probed,    \* the servers test_server_connection has sent its request to
    sv_ok,        \* successful_servers
    sv_result,    \* "none", or what download_all_* returned: "True", "False"
    \* --- one run that may be killed and started again ---
    rs_kind,      \* which script runs: "vod", "epg", "series"
    rs_remote,    \* what the server answers, the same in every run
    rs_st,        \* [store, cache, local]: the tables, the cache file, the local variables
    rs_pc,        \* where the run is: "idle", a step of the script, "done"
    rs_kills,     \* how often the process was killed
    \* --- one call of a pure function ---
    fn_in,        \* the arguments
    fn_out,       \* "none", or the value returned
    \* --- one per-server call over a listing of more than one batch ---
    bt_sync,      \* which synchronizer: "vod", "series", "live"
    bt_n,         \* len(streams): the records are new and have the ids 1..bt_n
    bt_fault,     \* the one store write that fails, if any
    bt_pc,        \* "idle", "loop", "commit", "done"
    bt_k,         \* batch_num
    bt_rows,      \* the committed rows, by remote id
    bt_pending,   \* the rows inserted since the last commit
    bt_result     \* "none", or the triple returned

epgVars == <<epg_data, epg_cache, epg_pc, epg_entries, epg_before, epg_outcome, epg_sent,
            epg_steps>>

drvVars == <<drv_pc, drv_scripts, drv_i, drv_ran, drv_cb, drv_result, drv_calls>>

cacheVars == <<cat_cache, mov_cache, cache_read>>

catVars == <<categories, cat_remote, cat_pc, cat_tot, cat_result, cat_resp, cat_wrote,
             cat_before, cat_probed, cat_calls, cat_missed>>

vodVars == <<vod_streams, vod_cache, vod_remote, vod_runs, vod_synced, vod_result>>

mmVars == <<mm_movies, mm_remote, mm_how, mm_phase, mm_cands, mm_pc, mm_meta,
            mm_lock, mm_start>>

smVars == <<sm_series, sm_episodes, sm_cache, sm_remote, sm_phase, sm_passes, sm_cands,
            sm_pc, sm_meta, sm_todo, sm_counts, sm_dbw, sm_runs, sm_sent, sm_totals,
            sm_has_errors>>

\* the subsystems below the category synchronizer
cmVars == <<cm_in, cm_cats, cm_out>>

\* the single-purpose specifications
ftVars == <<ft_kind, ft_env, ft_build, ft_attempts, ft_delay, ft_waits, ft_result>>

svVars == <<sv_sync, sv_env, sv_cache, sv_start, sv_rows, sv_pc, sv_i, sv_visited,
            sv_probed, sv_ok, sv_result>>

rsVars == <<rs_kind, rs_remote, rs_st, rs_pc, rs_kills>>

fnVars == <<fn_in, fn_out>>

btVars == <<bt_sync, bt_n, bt_fault, bt_pc, bt_k, bt_rows, bt_pending, bt_result>>

benchVars == <<rsVars, fnVars, btVars>>

restVars == <<cmVars, ftVars, svVars, benchVars>>

laterVars == <<vodVars, mmVars, smVars, restVars>>

vars == <<now, epgVars, drvVars, cacheVars, catVars, laterVars>>

\* what the actions of one subsystem leave unchanged
otherThanEpg == <<drvVars, cacheVars, catVars, laterVars>>

otherThanDrv == <<now, epgVars, cacheVars, catVars, laterVars>>

otherThanCache == <<epgVars, drvVars, catVars, laterVars>>

otherThanCats == <<epgVars, drvVars, laterVars>>

otherThanVod == <<epgVars, drvVars, cacheVars, catVars, mmVars, smVars, restVars>>

otherThanMeta ==
    <<now, epgVars, drvVars, cat_cache, cache_read, catVars, vodVars, smVars, restVars>>

otherThanSeries == <<epgVars, drvVars, cacheVars, catVars, vodVars, mmVars, restVars>>

\* everything but the single-purpose specifications
mainVars == <<now, epgVars, drvVars, cacheVars, catVars, vodVars, mmVars, smVars>>

\* ---------------------------------------------------------------------
\* Bounds of the model
\* ---------------------------------------------------------------------
MaxNow == 172800       \* the clock stops advancing after 48 hours
MaxProgs == 2          \* <programme> elements per guide document
MaxCalls == 3          \* driver calls in one behaviour
MaxSyncCalls == 2      \* synchronizer calls in one behaviour
MaxVodRuns == 2        \* VOD synchronizer calls in one behaviour
MaxPasses == 2         \* series enrichment passes in one behaviour

\* ---------------------------------------------------------------------
\* Time and cache records
\* ---------------------------------------------------------------------
NoRecord == [exists |-> FALSE]

CACHE_HOURS == 24

HalfTtl == (CACHE_HOURS * 60 * 60) \div 2

\* the passing of time between two operations
Tick ==
    /\ now + HalfTtl <= MaxNow
    /\ now' = now + HalfTtl

\* ---------------------------------------------------------------------
\* Response caches: the listing caches (updatecats.py, updatemovies.py,
\* updatelive.py, updateseries.py share one implementation) and the
\* per-title detail cache (updatemoviemetadata.py)
\* ---------------------------------------------------------------------
cache_hours == 24

CACHE_EXPIRY == 24 * 60 * 60

None == [kind |-> "none"]

ContentTypes == {"live", "vod", "series"}

StreamIds == {1, 2}

\* a file on disk: written at mtime; readable unless pickle.dump failed
\* after open(..., 'wb') had truncated it
CacheFile(mtime, readable, data) ==
    [exists |-> TRUE, mtime |-> mtime, readable |-> readable, data |-> data]

\* _is_cache_valid: file_modified > datetime.now() - timedelta(hours=cache_hours)
_is_cache_valid(rec) ==
    /\ rec.exists
    /\ rec.mtime > now - cache_hours * 60 * 60

\* _load_from_cache: None when invalid or when unpickling raises
_load_from_cache(rec) ==
    IF ~_is_cache_valid(rec) THEN None
    ELSE IF ~rec.readable THEN None
    ELSE rec.data

\* updatemoviemetadata.load_cache: time.time() - st_mtime > CACHE_EXPIRY
load_cache(rec) ==
    IF ~rec.exists THEN None
    ELSE IF now - rec.mtime > CACHE_EXPIRY THEN None
    ELSE IF ~rec.readable THEN None
    ELSE rec.data

\* _save_to_cache / save_cache: "ok", or open() failed (file untouched),
\* or pickle.dump failed (file truncated)
SavedFile(old, data, how) ==
    IF how = "ok" THEN CacheFile(now, TRUE, data)
    ELSE IF how = "dump_failed" THEN CacheFile(now, FALSE, data)
    ELSE old

SaveOutcomes == {"ok", "open_failed", "dump_failed"}

ReadRecord(cache, rec, result) ==
    [cache |-> cache, existed |-> rec.exists,
     readable |-> IF rec.exists THEN rec.readable ELSE FALSE,
     age |-> IF rec.exists THEN now - rec.mtime ELSE 0,
     result |-> result]

ListingPayload == [kind |-> "list", items |-> <<1>>]

DetailPayload == [kind |-> "dict", info |-> "a"]

\* the cache primitives applied to one listing key and one detail key
CacheSaveListing ==
    /\ \E how \in SaveOutcomes :
          cat_cache' = [cat_cache EXCEPT !["live"] = SavedFile(@, ListingPayload, how)]
    /\ UNCHANGED <<now, mov_cache, cache_read, otherThanCache>>

CacheLoadListing ==
    /\ cache_read' = ReadRecord("listing", cat_cache["live"],
                                _load_from_cache(cat_cache["live"]))
    /\ UNCHANGED <<now, cat_cache, mov_cache, otherThanCache>>

CacheSaveDetail ==
    /\ \E how \in SaveOutcomes :
          mov_cache' = [mov_cache EXCEPT ![1] = SavedFile(@, DetailPayload, how)]
    /\ UNCHANGED <<now, cat_cache, cache_read, otherThanCache>>

CacheLoadDetail ==
    /\ cache_read' = ReadRecord("detail", mov_cache[1], load_cache(mov_cache[1]))
    /\ UNCHANGED <<now, cat_cache, mov_cache, otherThanCache>>

CacheTick == Tick /\ UNCHANGED <<cacheVars, otherThanCache>>

CacheInit ==
    /\ cat_cache = [ct \in ContentTypes |-> NoRecord]
    /\ mov_cache = [id \in StreamIds |-> NoRecord]
    /\ cache_read = ReadRecord("none", NoRecord, None)

\* ---------------------------------------------------------------------
\* EPG importer (helpers/defaultepggrabber.py)
\* ---------------------------------------------------------------------
\* a <programme> element: a well-formed one (key = channel, start, title;
\* desc = the other columns), or one without a start attribute
\* (xmltv_to_sqlite_timestamp(None) raises inside the parse loop)
Programme ==
    {[key |-> "k1", desc |-> "a"], [key |-> "k1", desc |-> "b"],
     [key |-> "k2", desc |-> "a"], [bad |-> TRUE]}

IsBadProg(p) == "bad" \in DOMAIN p

ProgSeqs == UNION {[1..n -> Programme] : n \in 0..MaxProgs}

\* what resp.content can be: empty bytes, bytes that are no XML document,
\* or an XML document with a list of <programme> elements
XmlPayloads ==
    {[kind |-> "empty"], [kind |-> "garbage"]}
        \cup {[kind |-> "xml", progs |-> ps] : ps \in ProgSeqs}

\* bytes truthiness: `if xml_data:` / `if not xml_data:`
XmlTruthy(x) == x.kind # "empty"

RECURSIVE ParsePrefix(_)
ParsePrefix(ps) ==
    IF ps = <<>> THEN <<>>
    ELSE IF IsBadProg(Head(ps)) THEN <<>>
    ELSE <<Head(ps)>> \o ParsePrefix(Tail(ps))

\* parse_epg_xml: entries appended before an exception are returned
parse_epg_xml(x) ==
    IF x.kind = "xml" THEN ParsePrefix(x.progs) ELSE <<>>

\* a guide "parses" when ET.fromstring and every <programme> succeed
GuideParses(x) ==
    /\ x.kind = "xml"
    /\ \A i \in 1..Len(x.progs) : ~IsBadProg(x.progs[i])

RECURSIVE InsertOrIgnore(_, _)
InsertOrIgnore(table, es) ==
    IF es = <<>> THEN table
    ELSE InsertOrIgnore(
            IF \E r \in table : r.key = Head(es).key THEN table
            ELSE table \cup {Head(es)},
            Tail(es))

_is_cache_valid_epg(rec) ==
    /\ rec.exists
    /\ rec.mtime > now - CACHE_HOURS * 60 * 60

_load_from_cache_epg ==
    IF _is_cache_valid_epg(epg_cache) THEN epg_cache.xml ELSE [kind |-> "empty"]

\* the slip C3 guards against: the table is cleared before a replacement
\* is in hand
EpgReturnClearsFirst(outcome, sent) ==
    /\ epg_outcome' = outcome
    /\ epg_sent' = sent
    /\ epg_pc' = "idle"
    /\ epg_entries' = <<>>
    /\ epg_data' = {}

\* the early `return`s of main(): nothing is written
EpgReturn(outcome, sent) ==
    /\ epg_outcome' = outcome
    /\ epg_sent' = sent
    /\ epg_pc' = "idle"
    /\ epg_entries' = <<>>
    /\ UNCHANGED epg_data

\* main() looking into the cache before it gives up on a failed probe
passes_probe_or_cached(probe, cached) == probe \/ XmlTruthy(cached)

\* main(): `if not test_server_connection(url): return`, ahead of
\* _generate_cache_key and _load_from_cache
passes_probe(probe, cached) == probe

\* main() up to and including the DELETE + commit of insert_epg_entries
EpgMain ==
    /\ epg_pc = "idle"
    /\ epg_before' = epg_data
    /\ \E probe \in BOOLEAN, fetched \in XmlPayloads \cup {[kind |-> "error"]},
          saved \in BOOLEAN :
        /\ epg_steps' = <<IF probe THEN "head_ok" ELSE "head_failed">>
                            \o (IF passes_probe(probe, _load_from_cache_epg)
                                THEN <<"cache">> ELSE <<>>)
        /\ IF ~passes_probe(probe, _load_from_cache_epg)
           THEN EpgReturn("probe_failed", {"head"}) /\ UNCHANGED epg_cache
           ELSE LET cached == _load_from_cache_epg
                    hit == XmlTruthy(cached)
                    xml_data == IF hit THEN cached ELSE fetched
                    sent == IF hit THEN {"head"} ELSE {"head", "get"}
                IN  IF ~hit /\ (fetched.kind = "error" \/ ~XmlTruthy(fetched))
                    THEN EpgReturn("fetch_failed", sent) /\ UNCHANGED epg_cache
                    ELSE /\ epg_cache' =
                               IF ~hit /\ saved
                               THEN [exists |-> TRUE, mtime |-> now, xml |-> xml_data]
                               ELSE epg_cache
                         /\ IF parse_epg_xml(xml_data) = <<>>
                            THEN EpgReturn("no_entries", sent)
                            ELSE /\ epg_data' = {}
                                 /\ epg_pc' = "cleared"
                                 /\ epg_entries' = parse_epg_xml(xml_data)
                                 /\ epg_outcome' = "running"
                                 /\ epg_sent' = sent
    /\ UNCHANGED <<now, otherThanEpg>>

\* the INSERT OR IGNORE loop and the second commit of insert_epg_entries
EpgInsertCommit ==
    /\ epg_pc = "cleared"
    /\ epg_data' = InsertOrIgnore(epg_data, epg_entries)
    /\ epg_pc' = "idle"
    /\ epg_outcome' = "imported"
    /\ epg_entries' = <<>>
    /\ UNCHANGED <<now, epg_cache, epg_before, epg_sent, epg_steps, otherThanEpg>>

\* the process is killed between the two commits; the next start finds
\* what was committed
EpgCrash ==
    /\ epg_pc = "cleared"
    /\ epg_pc' = "idle"
    /\ epg_outcome' = "crashed"
    /\ epg_entries' = <<>>
    /\ UNCHANGED <<now, epg_data, epg_cache, epg_before, epg_sent, epg_steps,
                   otherThanEpg>>

EpgTick == Tick /\ UNCHANGED <<epgVars, otherThanEpg>>

EpgInit ==
    /\ epg_data = {}
    /\ epg_cache = NoRecord
    /\ epg_pc = "idle"
    /\ epg_entries = <<>>
    /\ epg_before = {}
    /\ epg_outcome = "none"
    /\ epg_sent = {}
    /\ epg_steps = <<>>

\* ---------------------------------------------------------------------
\* Drivers (backend.py: run_library_update, run_initial_setup)
\* ---------------------------------------------------------------------
\* scripts_to_run with the category step moved behind the entity steps
LibraryUpdateScriptsCatsLast(process_live_tv) ==
    (IF process_live_tv
     THEN <<"updatelive", "defaultepggrabber", "create_m3u_playlist", "create_epg_xml">>
     ELSE <<>>)
    \o <<"updatemovies", "updateseries", "updatecats", "updatemoviemetadata",
          "updateseriesmetadata", "create_strm_files", "create_series_strm_files",
          "vacuumdb">>

LibraryUpdateScripts(process_live_tv) ==
    <<"updatecats">>
    \o (IF process_live_tv
        THEN <<"updatelive", "defaultepggrabber", "create_m3u_playlist", "create_epg_xml">>
        ELSE <<>>)
    \o <<"updatemovies", "updateseries", "updatemoviemetadata", "updateseriesmetadata",
          "create_strm_files", "create_series_strm_files", "vacuumdb">>

InitialSetupScripts ==
    <<"setupdb", "save_directories", "add_iptv_server", "updatecats", "updatelive",
      "defaultepggrabber", "updatemovies", "updateseries", "updatemoviemetadata",
      "updateseriesmetadata", "vacuumdb">>

\* what a call of the script function can give back: a truthy value, a
\* falsy value (False or None), or an exception.  updatelive.main and
\* defaultepggrabber.main have no return value on any path (None);
\* updatemoviemetadata.main returns True on every path.
ScriptResults(script) ==
    IF script \in {"updatelive", "defaultepggrabber"} THEN {"falsy", "raise"}
    ELSE IF script = "updatemoviemetadata" THEN {"truthy", "raise"}
    ELSE {"truthy", "falsy", "raise"}

DrvEnter(scripts, cb) ==
    /\ drv_pc = "idle"
    /\ drv_calls < MaxCalls
    /\ drv_calls' = drv_calls + 1
    /\ drv_scripts' = scripts
    /\ drv_cb' = cb
    /\ drv_i' = 1
    /\ drv_ran' = <<>>
    /\ drv_pc' = "running"
    /\ drv_result' = "none"

\* run_library_update(process_live_tv, progress_callback=None): the first
\* statement calls progress_callback, outside any try
run_library_update ==
    /\ UNCHANGED otherThanDrv
    /\ \E process_live_tv \in BOOLEAN, cb \in BOOLEAN :
        IF cb
        THEN DrvEnter(LibraryUpdateScripts(process_live_tv), cb)
        ELSE /\ drv_pc = "idle"
             /\ drv_calls < MaxCalls
             /\ drv_calls' = drv_calls + 1
             /\ drv_scripts' = LibraryUpdateScripts(process_live_tv)
             /\ drv_cb' = cb
             /\ drv_i' = 1
             /\ drv_ran' = <<>>
             /\ drv_pc' = "done"
             /\ drv_result' = "raised"

\* run_initial_setup(..., progress_callback): the callback is a required
\* argument
run_initial_setup == DrvEnter(InitialSetupScripts, TRUE) /\ UNCHANGED otherThanDrv

\* one iteration of `for description, script_func in scripts_to_run`
DrvStepGo(r) ==
    /\ drv_ran' = Append(drv_ran, [script |-> drv_scripts[drv_i], result |-> r])
    /\ IF r = "truthy"
       THEN /\ drv_i' = drv_i + 1
            /\ UNCHANGED <<drv_pc, drv_result>>
       ELSE /\ drv_pc' = "done"
            /\ drv_result' = "False"
            /\ UNCHANGED drv_i

DrvStep ==
    /\ drv_pc = "running"
    /\ drv_i <= Len(drv_scripts)
    /\ \E r \in ScriptResults(drv_scripts[drv_i]) : DrvStepGo(r)
    /\ UNCHANGED <<drv_scripts, drv_cb, drv_calls, otherThanDrv>>

\* after the loop: final progress message, return True
DrvReturnTrue ==
    /\ drv_pc = "running"
    /\ drv_i > Len(drv_scripts)
    /\ drv_pc' = "done"
    /\ drv_result' = "True"
    /\ UNCHANGED <<drv_scripts, drv_i, drv_ran, drv_cb, drv_calls, otherThanDrv>>

\* the driver is called again
DrvAgain ==
    /\ drv_pc = "done"
    /\ drv_pc' = "idle"
    /\ UNCHANGED <<drv_scripts, drv_i, drv_ran, drv_cb, drv_result, drv_calls, otherThanDrv>>

DrvInit ==
    /\ drv_pc = "idle"
    /\ drv_scripts = <<>>
    /\ drv_i = 1
    /\ drv_ran = <<>>
    /\ drv_cb = TRUE
    /\ drv_result = "none"
    /\ drv_calls = 0

\* ---------------------------------------------------------------------
\* Category synchronizer (helpers/updatecats.py), one active server
\* ---------------------------------------------------------------------
CatServer == 1

\* content_types = ['live', 'vod', 'series']
CtOrder == <<"live", "vod", "series">>

\* a listing record, with or without its remote identifier
Rec(id) == [has_id |-> TRUE, id |-> id]

NoIdRec == [has_id |-> FALSE, id |-> 0]

ListOf(items) == [kind |-> "list", items |-> items]

\* what the server answers to get_<ct>_categories: a JSON list of
\* records, or (malformed) a JSON object
CatPayloads ==
    {[kind |-> "dict"], ListOf(<<>>), ListOf(<<Rec(1), NoIdRec, Rec(1)>>)}

CatRow(rows, server_id, category_id, ct) ==
    [id |-> Cardinality(rows) + 1, server_id |-> server_id,
     category_id |-> category_id, content_type |-> ct]

category_exists(rows, server_id, category_id, ct) ==
    \E r \in rows : /\ r.server_id = server_id
                    /\ r.category_id = category_id
                    /\ r.content_type = ct

\* the `for category_data in categories` loop; F = positions where the
\* existence check raises sqlite3.Error (and so answers False), G =
\* positions where the INSERT raises sqlite3.Error.  An INSERT of a
\* triple that is already there violates UNIQUE(server_id, category_id,
\* content_type) and is reported as a failed insert.
RECURSIVE CatLoop(_, _, _, _, _, _)
CatLoop(acc, items, i, ct, F, G) ==
    IF i > Len(items) THEN acc
    ELSE LET c == items[i]
             there == category_exists(acc.rows, CatServer, c.id, ct)
         IN  IF ~c.has_id THEN CatLoop(acc, items, i + 1, ct, F, G)
             ELSE IF there /\ i \notin F
             THEN CatLoop([acc EXCEPT !.existing = @ + 1], items, i + 1, ct, F, G)
             ELSE IF there \/ i \in G
             THEN CatLoop(acc, items, i + 1, ct, F, G)
             ELSE CatLoop([acc EXCEPT !.rows = @ \cup {CatRow(@, CatServer, c.id, ct)},
                                      !.new = @ + 1],
                          items, i + 1, ct, F, G)

\* download_categories with the shape check left out: whatever parses as
\* JSON is cached
download_categories_unchecked(ct, fetch) ==
    LET cached == _load_from_cache(cat_cache[ct])
    IN  IF cached # None
        THEN [resp |-> "hit", save |-> FALSE,
              categories |-> IF cached.kind = "list" THEN cached.items ELSE <<>>]
        ELSE IF fetch = "error"
        THEN [resp |-> "error", save |-> FALSE, categories |-> <<>>]
        ELSE IF cat_remote[ct].kind = "list"
        THEN [resp |-> "list", save |-> TRUE, categories |-> cat_remote[ct].items]
        ELSE [resp |-> "dict", save |-> TRUE, categories |-> <<>>]

\* download_categories: cache hit, or fetch; only a JSON list is cached
\* and returned, everything else gives []
download_categories(ct, fetch) ==
    LET cached == _load_from_cache(cat_cache[ct])
    IN  IF cached # None
        THEN [resp |-> "hit", save |-> FALSE,
              categories |-> IF cached.kind = "list" THEN cached.items ELSE <<>>]
        ELSE IF fetch = "error"
        THEN [resp |-> "error", save |-> FALSE, categories |-> <<>>]
        ELSE IF cat_remote[ct].kind = "list"
        THEN [resp |-> "list", save |-> TRUE, categories |-> cat_remote[ct].items]
        ELSE [resp |-> "dict", save |-> FALSE, categories |-> <<>>]

\* at most one statement of a loop over n records fails: none, one
\* existence check, or one INSERT
StoreFaults(n) ==
    {[F |-> {}, G |-> {}]}
        \cup {[F |-> {i}, G |-> {}] : i \in 1..n}
        \cup {[F |-> {}, G |-> {i}] : i \in 1..n}

\* download_all_categories that tests the connection of every server,
\* cached or not
CatBeginAlwaysProbes ==
    /\ cat_pc = 0
    /\ LET has_all_cached ==
              \A ct \in ContentTypes : _load_from_cache(cat_cache[ct]) # None
       IN  \E probe \in BOOLEAN :
             /\ has_all_cached => probe
             /\ cat_calls < MaxSyncCalls
             /\ cat_calls' = cat_calls + 1
             /\ cat_probed' = TRUE
             /\ IF probe
                THEN /\ cat_pc' = 1
                     /\ cat_result' = "running"
                ELSE /\ cat_pc' = 0
                     /\ cat_result' = "skipped"
    /\ cat_tot' = <<0, 0, 0>>
    /\ cat_resp' = [ct \in ContentTypes |-> "none"]
    /\ cat_wrote' = {}
    /\ cat_before' = categories
    /\ cat_missed' = {ct \in ContentTypes : _load_from_cache(cat_cache[ct]) = None}
    /\ UNCHANGED <<now, categories, cat_cache, cat_remote, mov_cache, cache_read,
                   otherThanCats>>

\* download_all_categories, loop body up to the call of
\* process_categories_for_server: the probe is skipped when all three
\* scopes are cached; a failed probe skips the server
CatBegin ==
    /\ cat_pc = 0
    /\ LET has_all_cached ==
              \A ct \in ContentTypes : _load_from_cache(cat_cache[ct]) # None
       IN  \E probe \in BOOLEAN :
             /\ has_all_cached => probe
             /\ cat_calls < MaxSyncCalls
             /\ cat_calls' = cat_calls + 1
             /\ cat_probed' = ~has_all_cached
             /\ IF probe
                THEN /\ cat_pc' = 1
                     /\ cat_result' = "running"
                ELSE /\ cat_pc' = 0
                     /\ cat_result' = "skipped"
    /\ cat_tot' = <<0, 0, 0>>
    /\ cat_resp' = [ct \in ContentTypes |-> "none"]
    /\ cat_wrote' = {}
    /\ cat_before' = categories
    /\ cat_missed' = {ct \in ContentTypes : _load_from_cache(cat_cache[ct]) = None}
    /\ UNCHANGED <<now, categories, cat_cache, cat_remote, mov_cache, cache_read,
                   otherThanCats>>

CatNextPc(tot) ==
    /\ cat_tot' = tot
    /\ IF cat_pc = Len(CtOrder)
       THEN cat_pc' = 0 /\ cat_result' = tot
       ELSE cat_pc' = cat_pc + 1 /\ UNCHANGED cat_result

\* process_categories_for_server: one iteration of
\* `for content_type in content_types`, and the return after the last
CatProcessType ==
    /\ cat_pc \in 1..Len(CtOrder)
    /\ LET ct == CtOrder[cat_pc]
       IN  \E fetch \in {"ok", "error"} :
           LET dl == download_categories(ct, fetch)
               n == Len(dl.categories)
           IN  /\ cat_resp' = [cat_resp EXCEPT ![ct] = dl.resp]
               /\ \E how \in (IF dl.save THEN {"ok", "open_failed"} ELSE {"open_failed"}) :
                    /\ cat_cache' = [cat_cache EXCEPT ![ct] =
                            SavedFile(@, cat_remote[ct], how)]
                    /\ cat_wrote' = IF how = "open_failed" THEN cat_wrote
                                    ELSE cat_wrote \cup {ct}
               /\ IF n = 0
                  THEN /\ CatNextPc(cat_tot)
                       /\ UNCHANGED categories
                  ELSE \E flt \in StoreFaults(n), commit \in BOOLEAN :
                       LET out == CatLoop([rows |-> categories, new |-> 0, existing |-> 0],
                                          dl.categories, 1, ct, flt.F, flt.G)
                       IN  IF commit
                           THEN /\ categories' = out.rows
                                /\ CatNextPc(<<cat_tot[1] + n, cat_tot[2] + out.new,
                                               cat_tot[3] + out.existing>>)
                           ELSE \* commit raises: rollback, return the totals so far
                                /\ categories' = categories
                                /\ cat_pc' = 0
                                /\ cat_result' = cat_tot
                                /\ UNCHANGED cat_tot
    /\ UNCHANGED <<now, cat_remote, cat_probed, cat_before, cat_calls, cat_missed,
                   mov_cache, cache_read, otherThanCats>>

\* time passes between two calls
CatTick == cat_pc = 0 /\ Tick /\ UNCHANGED <<cacheVars, catVars, otherThanCats>>

CatInit ==
    /\ categories = {}
    /\ cat_remote = [ct \in ContentTypes |-> ListOf(<<>>)]
    /\ cat_pc = 0
    /\ cat_tot = <<0, 0, 0>>
    /\ cat_result = "none"
    /\ cat_resp = [ct \in ContentTypes |-> "none"]
    /\ cat_wrote = {}
    /\ cat_before = {}
    /\ cat_probed = FALSE
    /\ cat_calls = 0
    /\ cat_missed = {}

\* ---------------------------------------------------------------------
\* VOD synchronizer (helpers/updatemovies.py), one server
\* ---------------------------------------------------------------------
VodServer == 1

\* batch_size = 1000
batch_size == 1000

\* what the server answers to get_vod_streams: a JSON object, or a JSON
\* list of records; the longest one has a record without stream_id and
\* stream id 1 twice
VodPayloads ==
    {[kind |-> "dict"], ListOf(<<>>), ListOf(<<Rec(1)>>),
     ListOf(<<Rec(1), NoIdRec, Rec(2), Rec(1)>>)}

\* the row INSERT INTO vod_streams adds; id is the AUTOINCREMENT key, and
\* the table has no UNIQUE constraint
VodRow(rows, server_id, stream_id) ==
    [id |-> Cardinality(rows) + 1, server_id |-> server_id, stream_id |-> stream_id]

\* stream_exists when the SELECT runs
stream_exists(rows, server_id, stream_id) ==
    \E r \in rows : r.server_id = server_id /\ r.stream_id = stream_id

\* the `for stream_data in batch_streams` loop over positions lo..hi of
\* the listing; F = positions where the SELECT of stream_exists raises
\* sqlite3.Error, which stream_exists answers with False
RECURSIVE VodLoop(_, _, _, _, _)
VodLoop(acc, streams, i, hi, F) ==
    IF i > hi THEN acc
    ELSE LET s == streams[i]
         IN  IF ~s.has_id THEN VodLoop(acc, streams, i + 1, hi, F)
             ELSE IF i \notin F /\ stream_exists(acc.rows, VodServer, s.id)
             THEN VodLoop([acc EXCEPT !.existing = @ + 1], streams, i + 1, hi, F)
             ELSE VodLoop([acc EXCEPT !.rows = @ \cup {VodRow(@, VodServer, s.id)},
                                      !.new = @ + 1],
                          streams, i + 1, hi, F)

\* the `for batch_num in range(total_batches)` loop; every batch ends
\* with a commit
RECURSIVE VodBatches(_, _, _, _)
VodBatches(acc, streams, batch_num, F) ==
    LET total_batches == (Len(streams) + batch_size - 1) \div batch_size
        start_idx == batch_num * batch_size
        end_idx == IF (batch_num + 1) * batch_size < Len(streams)
                   THEN (batch_num + 1) * batch_size ELSE Len(streams)
    IN  IF batch_num >= total_batches THEN acc
        ELSE VodBatches(VodLoop(acc, streams, start_idx + 1, end_idx, F),
                        streams, batch_num + 1, F)

\* download_vod_streams: cache hit, or fetch; only a JSON list is cached
\* and returned, everything else gives []
download_vod_streams(fetch) ==
    LET cached == _load_from_cache(vod_cache)
    IN  IF cached # None
        THEN [save |-> FALSE,
              streams |-> IF cached.kind = "list" THEN cached.items ELSE <<>>]
        ELSE IF fetch = "error"
        THEN [save |-> FALSE, streams |-> <<>>]
        ELSE IF vod_remote.kind = "list"
        THEN [save |-> TRUE, streams |-> vod_remote.items]
        ELSE [save |-> FALSE, streams |-> <<>>]

\* download_all_streams for the server: the probe is skipped when the
\* listing is cached and a failed probe skips the server; then
\* process_streams_for_server
download_all_streams ==
    /\ vod_runs < MaxVodRuns
    /\ vod_runs' = vod_runs + 1
    /\ LET has_cached == _load_from_cache(vod_cache) # None
       IN  \E probe \in BOOLEAN, fetch \in {"ok", "error"} :
             /\ has_cached => probe
             /\ IF ~probe
                THEN /\ vod_result' = "skipped"
                     /\ UNCHANGED <<vod_streams, vod_cache, vod_synced>>
                ELSE LET dl == download_vod_streams(fetch)
                         n == Len(dl.streams)
                     IN  /\ \E how \in (IF dl.save THEN {"ok", "open_failed"}
                                        ELSE {"open_failed"}) :
                              vod_cache' = SavedFile(vod_cache, vod_remote, how)
                         /\ IF n = 0
                            THEN /\ vod_result' = <<0, 0, 0>>
                                 /\ UNCHANGED <<vod_streams, vod_synced>>
                            ELSE \E F \in {{}} \cup {{i} : i \in 1..n}, commit \in BOOLEAN :
                                 LET out == VodBatches([rows |-> vod_streams, new |-> 0,
                                                        existing |-> 0],
                                                       dl.streams, 0, F)
                                 IN  IF commit
                                     THEN /\ vod_streams' = out.rows
                                          /\ vod_result' = <<n, out.new, out.existing>>
                                          /\ vod_synced' = vod_synced + 1
                                     ELSE \* commit raises: rollback, (0, 0, 0)
                                          /\ vod_result' = <<0, 0, 0>>
                                          /\ UNCHANGED <<vod_streams, vod_synced>>
    /\ UNCHANGED <<now, vod_remote, otherThanVod>>

\* time passes between two calls
VodTick == Tick /\ UNCHANGED <<vodVars, otherThanVod>>

VodInit ==
    /\ vod_streams = {}
    /\ vod_cache = NoRecord
    /\ vod_remote = ListOf(<<>>)
    /\ vod_runs = 0
    /\ vod_synced = 0
    /\ vod_result = "none"

\* ---------------------------------------------------------------------
\* Title enrichment (helpers/updatemoviemetadata.py)
\* ---------------------------------------------------------------------
THREAD_WORKERS == 8

Servers == {1, 2}

\* the titles in the store: stream id 1 is offered by both servers; tmdb
\* stands for the columns of UPDATE_COLUMNS, 0 = not enriched yet
MovieRows ==
    {[id |-> 1, server_id |-> 1, stream_id |-> 1, tmdb |-> 0],
     [id |-> 2, server_id |-> 2, stream_id |-> 1, tmdb |-> 0],
     [id |-> 3, server_id |-> 1, stream_id |-> 2, tmdb |-> 0]}

NoTmdb(r) == r.tmdb = 0

\* get_movies: SELECT stream_id, server_id ... WHERE tmdb_id IS NULL OR ''
get_movies(rows) ==
    SelectSeq([i \in 1..Cardinality(rows) |-> CHOOSE r \in rows : r.id = i], NoTmdb)

\* fetch_metadata_from_api: the JSON object of the server (its values
\* are the server's own), None for a JSON list or after three failures
fetch_metadata_from_api(server, stream_id) ==
    IF mm_remote[server] = "dict" THEN [kind |-> "dict", info |-> server] ELSE None

\* update_movie: UPDATE vod_streams SET ... WHERE stream_id=?
update_movie(rows, stream_id, metadata) ==
    {IF r.stream_id = stream_id THEN [r EXCEPT !.tmdb = metadata.info] ELSE r : r \in rows}

\* main(): read the candidates and submit one process_movie call each
MmMain ==
    /\ mm_phase = "idle"
    /\ mm_phase' = "running"
    /\ mm_cands' = get_movies(mm_movies)
    /\ mm_pc' = [w \in 1..Len(get_movies(mm_movies)) |-> "queued"]
    /\ mm_meta' = [w \in 1..Len(get_movies(mm_movies)) |-> None]
    /\ mm_start' = [rows |-> mm_movies, cache |-> mov_cache]
    /\ UNCHANGED <<mm_movies, mm_remote, mm_how, mm_lock, mov_cache, otherThanMeta>>

\* process_movie up to load_cache, once the pool has a free worker
MmLoad ==
    \E w \in DOMAIN mm_pc :
    /\ mm_pc[w] = "queued"
    /\ Cardinality({v \in DOMAIN mm_pc : mm_pc[v] \notin {"queued", "done"}})
            < THREAD_WORKERS
    /\ LET metadata == load_cache(mov_cache[mm_cands[w].stream_id])
       IN  /\ mm_meta' = [mm_meta EXCEPT ![w] = metadata]
           /\ mm_pc' = [mm_pc EXCEPT ![w] = IF metadata = None THEN "fetch" ELSE "update"]
    /\ UNCHANGED <<mm_movies, mm_remote, mm_how, mm_phase, mm_cands, mm_lock, mm_start,
                   mov_cache, otherThanMeta>>

\* process_movie: fetch_metadata_from_api and save_cache
MmFetch ==
    \E w \in DOMAIN mm_pc :
    /\ mm_pc[w] = "fetch"
    /\ LET c == mm_cands[w]
           metadata == fetch_metadata_from_api(c.server_id, c.stream_id)
       IN  /\ mm_meta' = [mm_meta EXCEPT ![w] = metadata]
           /\ IF metadata = None
              THEN /\ mm_pc' = [mm_pc EXCEPT ![w] = "done"]
                   /\ UNCHANGED mov_cache
              ELSE /\ mm_pc' = [mm_pc EXCEPT ![w] = "update"]
                   /\ mov_cache' = [mov_cache EXCEPT ![c.stream_id] =
                                        SavedFile(@, metadata, mm_how[w])]
    /\ UNCHANGED <<mm_movies, mm_remote, mm_how, mm_phase, mm_cands, mm_lock, mm_start,
                   otherThanMeta>>

\* update_movie: `with db_lock:` entered
MmAcquire ==
    \E w \in DOMAIN mm_pc :
    /\ mm_pc[w] = "update"
    /\ mm_lock = 0
    /\ mm_lock' = w
    /\ mm_pc' = [mm_pc EXCEPT ![w] = "locked"]
    /\ UNCHANGED <<mm_movies, mm_remote, mm_how, mm_phase, mm_cands, mm_meta, mm_start,
                   mov_cache, otherThanMeta>>

\* update_movie: execute, commit, close; db_lock released
MmWrite ==
    \E w \in DOMAIN mm_pc :
    /\ mm_pc[w] = "locked"
    /\ mm_movies' = update_movie(mm_movies, mm_cands[w].stream_id, mm_meta[w])
    /\ mm_lock' = 0
    /\ mm_pc' = [mm_pc EXCEPT ![w] = "done"]
    /\ UNCHANGED <<mm_remote, mm_how, mm_phase, mm_cands, mm_meta, mm_start,
                   mov_cache, otherThanMeta>>

\* main(): every future has completed
MmReturn ==
    /\ mm_phase = "running"
    /\ \A w \in DOMAIN mm_pc : mm_pc[w] = "done"
    /\ mm_phase' = "done"
    /\ UNCHANGED <<mm_movies, mm_remote, mm_how, mm_cands, mm_pc, mm_meta, mm_lock,
                   mm_start, mov_cache, otherThanMeta>>

\* process_movie called for the candidates one at a time, in the order
\* of movies
RECURSIVE SequentialPass(_, _, _, _)
SequentialPass(cands, i, rows, cache) ==
    IF i > Len(cands) THEN rows
    ELSE LET c == cands[i]
             cached == load_cache(cache[c.stream_id])
             fetched == fetch_metadata_from_api(c.server_id, c.stream_id)
             metadata == IF cached # None THEN cached ELSE fetched
         IN  SequentialPass(cands, i + 1,
                 IF metadata # None THEN update_movie(rows, c.stream_id, metadata)
                 ELSE rows,
                 IF cached = None /\ fetched # None
                 THEN [cache EXCEPT ![c.stream_id] = SavedFile(@, fetched, mm_how[i])]
                 ELSE cache)

MmInit ==
    /\ mm_movies = MovieRows
    /\ mm_remote = [s \in Servers |-> "dict"]
    /\ mm_how = [w \in 1..Cardinality(MovieRows) |-> "ok"]
    /\ mm_phase = "idle"
    /\ mm_cands = <<>>
    /\ mm_pc = <<>>
    /\ mm_meta = <<>>
    /\ mm_lock = 0
    /\ mm_start = [rows |-> MovieRows, cache |-> [id \in StreamIds |-> NoRecord]]

\* ---------------------------------------------------------------------
\* Series enrichment (helpers/updateseriesmetadata.py)
\* ---------------------------------------------------------------------
SERIES_THREAD_WORKERS == 4

SeriesIds == {1}

\* last_modified of a row the listing pass left empty
NoStamp == -1

\* the series in the store: series id 1 is offered by both servers
SeriesRows ==
    {[id |-> 1, server_id |-> 1, series_id |-> 1, last_modified |-> NoStamp, tmdb |-> 0],
     [id |-> 2, server_id |-> 2, series_id |-> 1, last_modified |-> NoStamp, tmdb |-> 0]}

\* episode["id"] as the JSON carries it: a number, or numeric text
IntId(n) == [t |-> "int", n |-> n]

TextId(n) == [t |-> "text", n |-> n]

\* the value column episode_id INTEGER holds after the INSERT, and the
\* value SELECT episode_id gives back: numeric text becomes the integer
StoredId(id) == IntId(id.n)

\* what get_series_info answers: a JSON object with the episodes of one
\* season, or a JSON list
SeriesPayloads ==
    {[kind |-> "dict", episodes |-> <<IntId(1)>>],
     [kind |-> "dict", episodes |-> <<TextId(1)>>],
     [kind |-> "dict", episodes |-> <<IntId(1), IntId(1)>>],
     [kind |-> "list"]}

\* fetch_series_metadata
fetch_series_metadata == IF sm_remote.kind = "dict" THEN sm_remote ELSE None

\* load_cache of updateseriesmetadata.py: no expiry
load_cache_series(rec) ==
    IF ~rec.exists THEN None
    ELSE IF ~rec.readable THEN None
    ELSE rec.data

\* get_series: SELECT series_id, server_id, last_modified FROM series
get_series(rows) ==
    [i \in 1..Cardinality(rows) |-> CHOOSE r \in rows : r.id = i]

\* the rows INSERT INTO episodes adds for episodes_to_insert; id is the
\* AUTOINCREMENT key, and the table has no UNIQUE constraint
RECURSIVE InsertEpisodes(_, _, _, _, _)
InsertEpisodes(rows, todo, i, server_id, series_id) ==
    IF i > Len(todo) THEN rows
    ELSE InsertEpisodes(rows \cup {[id |-> Cardinality(rows) + 1, server_id |-> server_id,
                                    series_id |-> series_id,
                                    episode_id |-> StoredId(todo[i])]},
                        todo, i + 1, server_id, series_id)

\* main(): read the candidates and submit one process_series call each
SmMain ==
    /\ sm_phase \in {"idle", "done"}
    /\ sm_passes < MaxPasses
    /\ sm_phase' = "running"
    /\ sm_cands' = get_series(sm_series)
    /\ sm_pc' = [w \in 1..Cardinality(sm_series) |-> "queued"]
    /\ sm_meta' = [w \in 1..Cardinality(sm_series) |-> None]
    /\ sm_todo' = [w \in 1..Cardinality(sm_series) |-> <<>>]
    /\ sm_counts' = [w \in 1..Cardinality(sm_series) |-> <<0, 0>>]
    /\ sm_runs' = [w \in 1..Cardinality(sm_series) |-> 0]
    /\ sm_sent' = [w \in 1..Cardinality(sm_series) |-> 0]
    /\ sm_totals' = <<0, 0>>
    /\ sm_has_errors' = FALSE
    /\ UNCHANGED <<now, sm_series, sm_episodes, sm_cache, sm_remote, sm_passes, sm_dbw,
                   otherThanSeries>>

\* process_series with a fixed expiry in place of the row's marker
use_cache_within_ttl(rec, last_modified) ==
    rec.exists /\ rec.mtime > now - 24 * 60 * 60

\* process_series: use_cache, from cache_file.exists(), the file's
\* modification time and the row's last_modified
use_cache(rec, last_modified) ==
    /\ rec.exists
    /\ (last_modified = NoStamp \/ rec.mtime > last_modified)

\* process_series up to load_cache, once the pool has a free worker;
\* metadata in hand, the worker enters update_series and issues its UPDATE
SmLoad ==
    \E w \in DOMAIN sm_pc :
    /\ sm_pc[w] = "queued"
    /\ Cardinality({v \in DOMAIN sm_pc : sm_pc[v] \notin {"queued", "done", "failed"}})
            < SERIES_THREAD_WORKERS
    /\ LET c == sm_cands[w]
           rec == sm_cache[c.series_id]
           metadata == IF use_cache(rec, c.last_modified) THEN load_cache_series(rec)
                       ELSE None
       IN  /\ sm_meta' = [sm_meta EXCEPT ![w] = metadata]
           /\ sm_pc' = [sm_pc EXCEPT ![w] = IF metadata = None THEN "fetch" ELSE "upd_exec"]
           /\ sm_runs' = [sm_runs EXCEPT ![w] = @ + 1]
    /\ UNCHANGED <<now, sm_series, sm_episodes, sm_cache, sm_remote, sm_phase, sm_passes,
                   sm_cands, sm_todo, sm_counts, sm_dbw, sm_sent, sm_totals, sm_has_errors,
                   otherThanSeries>>

\* process_series: fetch_series_metadata and save_cache
SmFetch ==
    \E w \in DOMAIN sm_pc :
    /\ sm_pc[w] = "fetch"
    /\ LET c == sm_cands[w]
           metadata == fetch_series_metadata
       IN  /\ sm_meta' = [sm_meta EXCEPT ![w] = metadata]
           /\ sm_sent' = [sm_sent EXCEPT ![w] = @ + 1]
           /\ IF metadata = None
              THEN /\ sm_pc' = [sm_pc EXCEPT ![w] = "done"]
                   /\ UNCHANGED sm_cache
              ELSE /\ sm_pc' = [sm_pc EXCEPT ![w] = "upd_exec"]
                   /\ \E how \in {"ok", "open_failed"} :
                        sm_cache' = [sm_cache EXCEPT ![c.series_id] =
                                        SavedFile(@, metadata, how)]
    /\ UNCHANGED <<now, sm_series, sm_episodes, sm_remote, sm_phase, sm_passes,
                   sm_cands, sm_todo, sm_counts, sm_dbw, sm_runs, sm_totals, sm_has_errors,
                   otherThanSeries>>

\* a worker inside cursor.execute / executemany of a write statement gets
\* SQLite's write lock once no other connection holds it
SmGrant ==
    \E w \in DOMAIN sm_pc :
    /\ sm_pc[w] \in {"upd_exec", "ins_exec", "lm_exec"}
    /\ sm_dbw = 0
    /\ sm_dbw' = w
    /\ sm_pc' = [sm_pc EXCEPT ![w] = CASE @ = "upd_exec" -> "upd_tx"
                                       [] @ = "ins_exec" -> "ins_tx"
                                       [] OTHER -> "lm_tx"]
    /\ UNCHANGED <<now, sm_series, sm_episodes, sm_cache, sm_remote, sm_phase, sm_passes,
                   sm_cands, sm_meta, sm_todo, sm_counts, sm_runs, sm_sent, sm_totals, sm_has_errors,
                   otherThanSeries>>

\* where process_series goes after the episode insert
AfterInsert(counts) ==
    IF counts[1] > 0 \/ counts[2] > 0 THEN "lm_exec" ELSE "done"

\* the other connection keeps the lock past the busy timeout: the
\* statement raises sqlite3.OperationalError, which only the episode
\* insert catches
SmBusy ==
    \E w \in DOMAIN sm_pc :
    /\ sm_pc[w] \in {"upd_exec", "ins_exec", "lm_exec"}
    /\ sm_dbw # 0
    /\ sm_pc' = [sm_pc EXCEPT ![w] = IF @ = "ins_exec" THEN AfterInsert(sm_counts[w])
                                     ELSE "failed"]
    /\ UNCHANGED <<now, sm_series, sm_episodes, sm_cache, sm_remote, sm_phase, sm_passes,
                   sm_cands, sm_meta, sm_todo, sm_counts, sm_dbw, sm_runs, sm_sent, sm_totals, sm_has_errors,
                   otherThanSeries>>

\* update_series: UPDATE series SET ... WHERE series_id=? committed
SmUpdateCommit ==
    \E w \in DOMAIN sm_pc :
    /\ sm_pc[w] = "upd_tx"
    /\ LET sid == sm_cands[w].series_id
       IN  /\ sm_series' = {IF r.series_id = sid THEN [r EXCEPT !.tmdb = 1] ELSE r :
                              r \in sm_series}
           /\ sm_counts' = [sm_counts EXCEPT ![w][1] =
                                Cardinality({r \in sm_series : r.series_id = sid})]
    /\ sm_dbw' = 0
    /\ sm_pc' = [sm_pc EXCEPT ![w] = "scan"]
    /\ UNCHANGED <<now, sm_episodes, sm_cache, sm_remote, sm_phase, sm_passes,
                   sm_cands, sm_meta, sm_todo, sm_runs, sm_sent, sm_totals, sm_has_errors,
                   otherThanSeries>>

IsNew(existing_episode_ids, id) == id \notin existing_episode_ids

\* process_series: existing_episode_ids and episodes_to_insert
SmScan ==
    \E w \in DOMAIN sm_pc :
    /\ sm_pc[w] = "scan"
    /\ LET sid == sm_cands[w].series_id
           existing_episode_ids ==
               {e.episode_id : e \in {x \in sm_episodes : x.series_id = sid}}
           eps == sm_meta[w].episodes
           new == {i \in 1..Len(eps) : IsNew(existing_episode_ids, eps[i])}
           RECURSIVE Pick(_)
           Pick(i) == IF i > Len(eps) THEN <<>>
                      ELSE IF i \in new THEN <<eps[i]>> \o Pick(i + 1)
                      ELSE Pick(i + 1)
       IN  /\ sm_todo' = [sm_todo EXCEPT ![w] = Pick(1)]
           /\ sm_pc' = [sm_pc EXCEPT ![w] = IF new = {} THEN AfterInsert(sm_counts[w])
                                            ELSE "ins_exec"]
    /\ UNCHANGED <<now, sm_series, sm_episodes, sm_cache, sm_remote, sm_phase, sm_passes,
                   sm_cands, sm_meta, sm_counts, sm_dbw, sm_runs, sm_sent, sm_totals, sm_has_errors,
                   otherThanSeries>>

\* process_series: executemany(INSERT INTO episodes ...) committed
SmInsertCommit ==
    \E w \in DOMAIN sm_pc :
    /\ sm_pc[w] = "ins_tx"
    /\ sm_episodes' = InsertEpisodes(sm_episodes, sm_todo[w], 1, sm_cands[w].server_id,
                                     sm_cands[w].series_id)
    /\ sm_counts' = [sm_counts EXCEPT ![w][2] = Len(sm_todo[w])]
    /\ sm_dbw' = 0
    /\ sm_pc' = [sm_pc EXCEPT ![w] = "lm_exec"]
    /\ UNCHANGED <<now, sm_series, sm_cache, sm_remote, sm_phase, sm_passes,
                   sm_cands, sm_meta, sm_todo, sm_runs, sm_sent, sm_totals, sm_has_errors,
                   otherThanSeries>>

\* process_series ending without the UPDATE of last_modified
SmLastModLeftOut ==
    \E w \in DOMAIN sm_pc :
    /\ sm_pc[w] = "lm_tx"
    /\ sm_dbw' = 0
    /\ sm_pc' = [sm_pc EXCEPT ![w] = "done"]
    /\ UNCHANGED <<now, sm_series, sm_episodes, sm_cache, sm_remote, sm_phase, sm_passes,
                   sm_cands, sm_meta, sm_todo, sm_counts, sm_runs, sm_sent, sm_totals,
                   sm_has_errors, otherThanSeries>>

\* process_series: UPDATE series SET last_modified = ? WHERE series_id = ?
SmLastModCommit ==
    \E w \in DOMAIN sm_pc :
    /\ sm_pc[w] = "lm_tx"
    /\ sm_series' = {IF r.series_id = sm_cands[w].series_id
                     THEN [r EXCEPT !.last_modified = now] ELSE r : r \in sm_series}
    /\ sm_dbw' = 0
    /\ sm_pc' = [sm_pc EXCEPT ![w] = "done"]
    /\ UNCHANGED <<now, sm_episodes, sm_cache, sm_remote, sm_phase, sm_passes,
                   sm_cands, sm_meta, sm_todo, sm_counts, sm_runs, sm_sent, sm_totals, sm_has_errors,
                   otherThanSeries>>

\* the sum main() has after the as_completed loop: future.result() of a
\* call that raised raises again, and the except branch adds nothing
RECURSIVE SumResults(_, _, _, _)
SumResults(pcs, counts, k, w) ==
    IF w > Len(pcs) THEN 0
    ELSE (IF pcs[w] = "done" THEN counts[w][k] ELSE 0) + SumResults(pcs, counts, k, w + 1)

\* main() with the except branch of the as_completed loop left out: the
\* first future that raised ends the loop
SmReturnOnFirstError ==
    /\ sm_phase = "running"
    /\ \/ \A w \in DOMAIN sm_pc : sm_pc[w] \in {"done", "failed"}
       \/ \E w \in DOMAIN sm_pc : sm_pc[w] = "failed"
    /\ sm_phase' = "done"
    /\ sm_passes' = sm_passes + 1
    /\ sm_totals' = <<SumResults(sm_pc, sm_counts, 1, 1), SumResults(sm_pc, sm_counts, 2, 1)>>
    /\ sm_has_errors' = (\E w \in DOMAIN sm_pc : sm_pc[w] = "failed")
    /\ UNCHANGED <<now, sm_series, sm_episodes, sm_cache, sm_remote, sm_cands, sm_pc,
                   sm_meta, sm_todo, sm_counts, sm_dbw, sm_runs, sm_sent, otherThanSeries>>

\* main(): the pool has run every future, the as_completed loop has added
\* up the results, and main returns
SmReturn ==
    /\ sm_phase = "running"
    /\ \A w \in DOMAIN sm_pc : sm_pc[w] \in {"done", "failed"}
    /\ sm_phase' = "done"
    /\ sm_passes' = sm_passes + 1
    /\ sm_totals' = <<SumResults(sm_pc, sm_counts, 1, 1), SumResults(sm_pc, sm_counts, 2, 1)>>
    /\ sm_has_errors' = (\E w \in DOMAIN sm_pc : sm_pc[w] = "failed")
    /\ UNCHANGED <<now, sm_series, sm_episodes, sm_cache, sm_remote, sm_cands, sm_pc,
                   sm_meta, sm_todo, sm_counts, sm_dbw, sm_runs, sm_sent, otherThanSeries>>

SmTick == sm_phase # "running" /\ Tick /\ UNCHANGED <<smVars, otherThanSeries>>

SmInit ==
    /\ sm_series = SeriesRows
    /\ sm_episodes = {}
    /\ sm_cache = [id \in SeriesIds |-> NoRecord]
    /\ sm_remote = [kind |-> "list"]
    /\ sm_phase = "idle"
    /\ sm_passes = 0
    /\ sm_cands = <<>>
    /\ sm_pc = <<>>
    /\ sm_meta = <<>>
    /\ sm_todo = <<>>
    /\ sm_counts = <<>>
    /\ sm_dbw = 0
    /\ sm_runs = <<>>
    /\ sm_sent = <<>>
    /\ sm_totals = <<0, 0>>
    /\ sm_has_errors = FALSE

\* ---------------------------------------------------------------------
\* Category of an inserted listing record (insert_stream of
\* updatemovies.py and updatelive.py, insert_series of updateseries.py)
\* ---------------------------------------------------------------------
\* stream_data.get('category_id'): absent, or a number, or numeric text
Absent == [t |-> "absent", n |-> 0]

CategoryInputs == {Absent} \cup {IntId(n) : n \in 1..3} \cup {TextId(n) : n \in 1..3}

\* NULL in a column
Null == [t |-> "null", n |-> 0]

\* the rows of table categories the server can have: (remote) category
\* ids 1 and 2, each for one content type
CategoryTables ==
    SUBSET {[id |-> 11, category_id |-> 1, content_type |-> "live"],
            [id |-> 12, category_id |-> 2, content_type |-> "live"],
            [id |-> 21, category_id |-> 1, content_type |-> "vod"]}

\* updatemovies.get_category_mapping: {int(category_id): id} over the
\* 'vod' rows; the lookup of insert_stream, 0 when there is no entry
vod_db_category_id(cat, cats) ==
    LET hits == {r \in cats : r.content_type = "vod" /\ cat.t # "absent"
                                /\ r.category_id = cat.n}
    IN  IF hits = {} THEN {IntId(0)} ELSE {IntId(r.id) : r \in hits}

\* updatelive.get_category_mapping: {str(category_id): str(category_id)}
\* over the 'live' rows; the lookup of insert_stream falls back to the
\* category_id of whichever live row SELECT ... LIMIT 1 gives, else '0'
live_db_category_id(cat, cats) ==
    LET live == {r \in cats : r.content_type = "live"}
        hits == {r \in live : cat.t # "absent" /\ r.category_id = cat.n}
    IN  IF hits # {} THEN {TextId(r.category_id) : r \in hits}
        ELSE IF live # {} THEN {IntId(r.category_id) : r \in live}
        ELSE {TextId(0)}

\* updateseries.get_category_mapping selects a column xtream_id that
\* table categories does not have: the SELECT raises sqlite3.Error and
\* the mapping stays {}; insert_series looks the category up in it
series_db_category_id(cat, cats) == {Null}

\* the value the INTEGER column category_id holds after the INSERT
StoredCategory(v) == IF v.t = "text" THEN IntId(v.n) ELSE v

\* whether the record's category has a row in the content type's categories
HasCategory(cat, cats, ct) ==
    /\ cat.t # "absent"
    /\ \E r \in cats : r.content_type = ct /\ r.category_id = cat.n

Inserted(sync, ct, v) ==
    [sync |-> sync, inserted |-> TRUE, mapped |-> HasCategory(cm_in, cm_cats, ct),
     category |-> StoredCategory(v)]

\* one stream of the VOD listing is inserted
CmInsertVod ==
    /\ \E v \in vod_db_category_id(cm_in, cm_cats) : cm_out' = Inserted("vod", "vod", v)
    /\ UNCHANGED <<cm_in, cm_cats, mainVars, ftVars, svVars, benchVars>>

\* one stream of the live listing is inserted
CmInsertLive ==
    /\ \E v \in live_db_category_id(cm_in, cm_cats) : cm_out' = Inserted("live", "live", v)
    /\ UNCHANGED <<cm_in, cm_cats, mainVars, ftVars, svVars, benchVars>>

\* one series of the series listing is inserted
CmInsertSeries ==
    /\ \E v \in series_db_category_id(cm_in, cm_cats) :
          cm_out' = Inserted("series", "series", v)
    /\ UNCHANGED <<cm_in, cm_cats, mainVars, ftVars, svVars, benchVars>>

CmInit ==
    /\ cm_in = Absent
    /\ cm_cats = {}
    /\ cm_out = [sync |-> "none", inserted |-> FALSE, mapped |-> FALSE, category |-> Null]

\* ---------------------------------------------------------------------
\* One fetch: fetch_metadata_from_api (updatemoviemetadata.py),
\* fetch_series_metadata (updateseriesmetadata.py) and the listing fetch
\* of download_vod_streams (updatemovies.py)
\* ---------------------------------------------------------------------
\* retries = 3
retries == 3

\* what a request can meet: a timeout, a refused connection, a body that
\* is not JSON, or a JSON object, list or scalar
Transient == {"timeout", "connection"}

Malformed == {"nonjson", "list", "scalar"}

Outcomes == Transient \cup Malformed \cup {"dict"}

\* response.json() on a body that is not JSON raises
\* requests.exceptions.JSONDecodeError, a RequestException, with requests
\* 2.27 and later, and a plain ValueError with earlier releases
Builds == {"RequestException", "ValueError"}

\* the except clause that handles what attempt met
Handler(met, build) ==
    IF met \in Transient THEN "RequestException"
    ELSE IF met = "nonjson" THEN build
    ELSE "none"

\* one iteration of `for i in range(retries)` of a detail fetch
FtAttempt ==
    /\ ft_kind \in {"movie", "series"}
    /\ ft_result = "pending"
    /\ ft_attempts < retries
    /\ ft_attempts' = ft_attempts + 1
    /\ LET i == ft_attempts
           met == ft_env[ft_attempts + 1]
           handler == Handler(met, ft_build)
       IN  IF handler = "RequestException"
           THEN IF i < retries - 1
                THEN /\ ft_waits' = Append(ft_waits, ft_delay)
                     /\ ft_delay' = ft_delay * 2
                     /\ UNCHANGED ft_result
                ELSE /\ ft_result' = "failed"
                     /\ UNCHANGED <<ft_waits, ft_delay>>
           ELSE /\ ft_result' = IF handler = "ValueError" \/ met = "list" THEN "failed"
                                ELSE IF met = "dict" THEN "ok"
                                ELSE "other"
                /\ UNCHANGED <<ft_waits, ft_delay>>
    /\ UNCHANGED <<ft_kind, ft_env, ft_build, mainVars, cmVars, svVars, benchVars>>

\* the fetch of download_vod_streams: one session.get, every exception
\* and every non-list answer gives []
FtListing ==
    /\ ft_kind = "listing"
    /\ ft_result = "pending"
    /\ ft_attempts' = ft_attempts + 1
    /\ ft_result' = IF ft_env[1] = "list" THEN "ok" ELSE "failed"
    /\ UNCHANGED <<ft_kind, ft_env, ft_build, ft_delay, ft_waits, mainVars, cmVars, svVars, benchVars>>

FtInit ==
    /\ ft_kind = "listing"
    /\ ft_env = [i \in 1..retries |-> "list"]
    /\ ft_build = "RequestException"
    /\ ft_attempts = 0
    /\ ft_delay = 1
    /\ ft_waits = <<>>
    /\ ft_result = "pending"

\* ---------------------------------------------------------------------
\* One synchronizer run over the active servers (download_all_categories,
\* download_all_streams of updatemovies.py and of updatelive.py,
\* download_all_series)
\* ---------------------------------------------------------------------
\* get_servers(): the servers with status 'active'
ActiveServers == <<1, 2>>

Synchronizers == {"cats", "vod", "series", "live"}

\* what a server answers to the probe (player_api.php without action): a
\* JSON object with a non-empty user_info, one with server_info only, one
\* with neither, a JSON null or number, or no usable answer at all
\* (timeout, HTTP error, body that is not JSON)
ProbeAnswers == {"user_info", "server_info", "neither", "scalar", "error"}

\* what a server answers to the listing request
ListingAnswers ==
    {[kind |-> "error"], [kind |-> "dict"], ListOf(<<>>), ListOf(<<Rec(1), NoIdRec>>)}

\* updatecats.test_server_connection: `'user_info' in data and
\* data['user_info']`; the TypeError of `in` on a JSON null or number is
\* caught by the last clause, `except Exception`, which returns False
test_server_connection_cats(answer) ==
    IF answer = "user_info" THEN "True" ELSE "False"

\* updatemovies.test_server_connection: True for every JSON object
test_server_connection_vod(answer) ==
    IF answer \in {"user_info", "server_info", "neither"} THEN "True" ELSE "False"

\* updateseries.test_server_connection: the get_series request itself,
\* True for a non-empty JSON list
test_server_connection_series(listing) ==
    IF listing.kind = "list" /\ Len(listing.items) > 0 THEN "True" ELSE "False"

\* `<id> = record.get('<id key>')` ... `if <id> is None: continue`
missing_id_never(rec) == FALSE

missing_id(rec) == ~rec.has_id

\* what a row holds for a value of None
NullId == NoIdRec.id

SvRow(table, ct, server_id, rec) ==
    [table |-> table, ct |-> ct, server_id |-> server_id,
     remote_id |-> IF rec.has_id THEN rec.id ELSE NullId]

\* category_exists / stream_exists / series_exists
row_exists(rows, table, ct, server_id, remote_id) ==
    \E r \in rows : /\ r.table = table /\ r.ct = ct
                    /\ r.server_id = server_id /\ r.remote_id = remote_id

\* the loop over the records of a listing, the same in the four
\* synchronizers: a record without identifier is skipped, a record whose
\* row exists is counted, any other is inserted
RECURSIVE ListingLoop(_, _, _, _, _, _)
ListingLoop(rows, items, i, table, ct, server_id) ==
    IF i > Len(items) THEN rows
    ELSE LET rec == items[i]
         IN  IF missing_id(rec) THEN ListingLoop(rows, items, i + 1, table, ct, server_id)
             ELSE IF row_exists(rows, table, ct, server_id, rec.id)
             THEN ListingLoop(rows, items, i + 1, table, ct, server_id)
             ELSE ListingLoop(rows \cup {SvRow(table, ct, server_id, rec)},
                              items, i + 1, table, ct, server_id)

\* download_categories / download_vod_streams / download_live_streams and
\* the fetch of process_series_for_server: the cached listing, or the
\* fetched one, which is cached when it is a JSON list
download_listing(s) ==
    LET cached == _load_from_cache(sv_cache[s])
        answer == sv_env[s].listing
    IN  IF cached # None THEN [items |-> cached.items, cache |-> sv_cache[s]]
        ELSE IF answer.kind = "list"
        THEN [items |-> answer.items, cache |-> SavedFile(sv_cache[s], answer, "ok")]
        ELSE [items |-> <<>>, cache |-> sv_cache[s]]

\* process_categories_for_server: the three content types in turn
process_categories_for_server(s) ==
    LET dl == download_listing(s)
        live == ListingLoop(sv_rows, dl.items, 1, "categories", "live", s)
        vod == ListingLoop(live, dl.items, 1, "categories", "vod", s)
        series == ListingLoop(vod, dl.items, 1, "categories", "series", s)
    IN  [rows |-> series, cache |-> dl.cache, downloaded |-> 3 * Len(dl.items)]

\* process_streams_for_server of updatemovies.py and of updatelive.py,
\* process_series_for_server after its probe
process_for_server(table, s) ==
    LET dl == download_listing(s)
    IN  [rows |-> ListingLoop(sv_rows, dl.items, 1, table, "", s),
         cache |-> dl.cache, downloaded |-> Len(dl.items)]

\* the rest of one loop iteration once process_*_for_server has returned
SvProcessed(s, out) ==
    /\ sv_rows' = out.rows
    /\ sv_cache' = [sv_cache EXCEPT ![s] = out.cache]
    /\ sv_ok' = IF out.downloaded > 0 THEN sv_ok + 1 ELSE sv_ok
    /\ sv_i' = sv_i + 1
    /\ UNCHANGED <<sv_pc, sv_result>>

\* a skipped server that ends the run, as a `return False` in place of
\* the `continue` would
SvSkippedEndsRun ==
    /\ sv_pc' = "done"
    /\ sv_result' = "False"
    /\ UNCHANGED <<sv_rows, sv_cache, sv_ok, sv_i>>

\* `continue`, or zero records returned before anything was written
SvSkipped ==
    /\ sv_i' = sv_i + 1
    /\ UNCHANGED <<sv_rows, sv_cache, sv_ok, sv_pc, sv_result>>

\* download_all_*: connect_db and get_servers
SvBegin ==
    /\ sv_pc = "idle"
    /\ sv_pc' = "loop"
    /\ sv_i' = 1
    /\ sv_ok' = 0
    /\ UNCHANGED <<sv_sync, sv_env, sv_cache, sv_start, sv_rows, sv_visited, sv_probed,
                   sv_result, mainVars, cmVars, ftVars, benchVars>>

\* one iteration of the server loop of download_all_categories
SvCats ==
    /\ sv_sync = "cats" /\ sv_pc = "loop" /\ sv_i <= Len(ActiveServers)
    /\ LET s == ActiveServers[sv_i]
           has_all_cached == _load_from_cache(sv_cache[s]) # None
           probe == IF has_all_cached THEN "none"
                    ELSE test_server_connection_cats(sv_env[s].probe)
       IN  /\ sv_visited' = Append(sv_visited, s)
           /\ sv_probed' = IF has_all_cached THEN sv_probed ELSE sv_probed \cup {s}
           /\ IF probe = "False" THEN SvSkipped
              ELSE SvProcessed(s, process_categories_for_server(s))
    /\ UNCHANGED <<sv_sync, sv_env, sv_start, mainVars, cmVars, ftVars, benchVars>>

\* one iteration of the server loop of updatemovies.download_all_streams
SvVod ==
    /\ sv_sync = "vod" /\ sv_pc = "loop" /\ sv_i <= Len(ActiveServers)
    /\ LET s == ActiveServers[sv_i]
           has_cached == _load_from_cache(sv_cache[s]) # None
           probe == IF has_cached THEN "none"
                    ELSE test_server_connection_vod(sv_env[s].probe)
       IN  /\ sv_visited' = Append(sv_visited, s)
           /\ sv_probed' = IF has_cached THEN sv_probed ELSE sv_probed \cup {s}
           /\ IF probe = "False" THEN SvSkipped
              ELSE SvProcessed(s, process_for_server("vod_streams", s))
    /\ UNCHANGED <<sv_sync, sv_env, sv_start, mainVars, cmVars, ftVars, benchVars>>

\* one iteration of the server loop of download_all_series; the probe of
\* process_series_for_server is a get_series request
SvSeries ==
    /\ sv_sync = "series" /\ sv_pc = "loop" /\ sv_i <= Len(ActiveServers)
    /\ LET s == ActiveServers[sv_i]
           cached == _load_from_cache(sv_cache[s])
           probe == IF cached # None THEN "none"
                    ELSE test_server_connection_series(sv_env[s].listing)
       IN  /\ sv_visited' = Append(sv_visited, s)
           /\ IF probe = "False" THEN SvSkipped
              ELSE SvProcessed(s, process_for_server("series", s))
    /\ UNCHANGED <<sv_sync, sv_env, sv_start, sv_probed, mainVars, cmVars, ftVars, benchVars>>

\* one iteration of the server loop of updatelive.download_all_streams:
\* process_streams_for_server, with no probe before it
SvLive ==
    /\ sv_sync = "live" /\ sv_pc = "loop" /\ sv_i <= Len(ActiveServers)
    /\ LET s == ActiveServers[sv_i]
       IN  /\ sv_visited' = Append(sv_visited, s)
           /\ SvProcessed(s, process_for_server("live_streams", s))
    /\ UNCHANGED <<sv_sync, sv_env, sv_start, sv_probed, mainVars, cmVars, ftVars, benchVars>>

\* the loop is over: `return successful_servers > 0`, and `return True`
\* in updatelive.py
SvReturn ==
    /\ sv_pc = "loop" /\ sv_i > Len(ActiveServers)
    /\ sv_pc' = "done"
    /\ sv_result' = IF sv_sync = "live" \/ sv_ok > 0 THEN "True" ELSE "False"
    /\ UNCHANGED <<sv_sync, sv_env, sv_cache, sv_start, sv_rows, sv_i, sv_visited,
                   sv_probed, sv_ok, mainVars, cmVars, ftVars, benchVars>>

\* a listing cached within the last 24 hours
CachedListing == CacheFile(now, TRUE, ListOf(<<Rec(2)>>))

SvInit ==
    /\ sv_sync = "cats"
    /\ sv_env = [s \in 1..Len(ActiveServers) |->
                    [probe |-> "user_info", listing |-> ListOf(<<>>)]]
    /\ sv_cache = [s \in 1..Len(ActiveServers) |-> NoRecord]
    /\ sv_start = [s \in 1..Len(ActiveServers) |-> NoRecord]
    /\ sv_rows = {}
    /\ sv_pc = "idle"
    /\ sv_i = 1
    /\ sv_visited = <<>>
    /\ sv_probed = {}
    /\ sv_ok = 0
    /\ sv_result = "none"

\* ---------------------------------------------------------------------
\* A run that is killed and started again (process_streams_for_server of
\* updatemovies.py, main of defaultepggrabber.py, process_series), one
\* server, one series, the statements of the script one after the other
\* ---------------------------------------------------------------------
MaxKills == 1

\* the largest number of seconds given to parse_duration as digits
MaxSeconds == 4000

\* the most files a cache directory holds when a run starts
MaxFiles == 3

\* the most batches a listing has
MaxBatches == 3

Scripts == {"vod", "epg", "series"}

\* the store a run starts from: no titles; the guide of an earlier
\* import; one series row the listing pass has inserted, no episodes
StartStore(kind) ==
    CASE kind = "vod" -> {}
      [] kind = "epg" -> {[key |-> "k2", desc |-> "b"]}
      [] OTHER -> [series |-> [tmdb |-> 0, last_modified |-> NoStamp], episodes |-> {}]

StartOf(kind) == [store |-> StartStore(kind), cache |-> NoRecord, local |-> None]

RemotesOf(kind) ==
    CASE kind = "vod" -> VodPayloads
      [] kind = "epg" -> XmlPayloads
      [] OTHER -> SeriesPayloads

\* process_series: episodes_to_insert, the episodes of the payload whose
\* id is not in existing_episode_ids
RECURSIVE episodes_to_insert(_, _)
episodes_to_insert(existing_episode_ids, eps) ==
    IF eps = <<>> THEN <<>>
    ELSE (IF IsNew(existing_episode_ids, Head(eps)) THEN <<Head(eps)>> ELSE <<>>)
            \o episodes_to_insert(existing_episode_ids, Tail(eps))

\* process_streams_for_server of updatemovies.py, statement by statement:
\* download_vod_streams (cache or fetch), then the batches, each with its
\* commit
VodStep(pc, st, remote) ==
    IF pc = "idle"
    THEN LET cached == _load_from_cache(st.cache)
             streams == IF cached # None
                        THEN (IF cached.kind = "list" THEN cached.items ELSE <<>>)
                        ELSE IF remote.kind = "list" THEN remote.items ELSE <<>>
             cache == IF cached = None /\ remote.kind = "list"
                      THEN SavedFile(st.cache, remote, "ok") ELSE st.cache
         IN  [pc |-> IF streams = <<>> THEN "done" ELSE "batches",
              st |-> [st EXCEPT !.cache = cache, !.local = streams]]
    ELSE [pc |-> "done",
          st |-> [st EXCEPT !.store = VodBatches([rows |-> st.store, new |-> 0,
                                                  existing |-> 0],
                                                 st.local, 0, {}).rows,
                            !.local = None]]

\* main of defaultepggrabber.py, statement by statement: cache or fetch,
\* parse, then the DELETE and the INSERTs of insert_epg_entries, each with
\* its commit
EpgStep(pc, st, remote) ==
    CASE pc = "idle" ->
            LET hit == _is_cache_valid_epg(st.cache) /\ XmlTruthy(st.cache.xml)
                xml_data == IF hit THEN st.cache.xml ELSE remote
                cache == IF hit THEN st.cache
                         ELSE [exists |-> TRUE, mtime |-> now, xml |-> remote]
            IN  IF ~hit /\ ~XmlTruthy(remote) THEN [pc |-> "done", st |-> st]
                ELSE IF parse_epg_xml(xml_data) = <<>>
                THEN [pc |-> "done", st |-> [st EXCEPT !.cache = cache]]
                ELSE [pc |-> "delete",
                      st |-> [st EXCEPT !.cache = cache, !.local = parse_epg_xml(xml_data)]]
      [] pc = "delete" -> [pc |-> "insert", st |-> [st EXCEPT !.store = {}]]
      [] OTHER -> [pc |-> "done",
                   st |-> [st EXCEPT !.store = InsertOrIgnore(st.store, st.local),
                                     !.local = None]]

\* process_series, statement by statement: cache or fetch, update_series,
\* the episode insert, the last_modified update, each with its commit
SeriesStep(pc, st, remote) ==
    CASE pc = "idle" ->
            LET rec == st.cache
                last_modified == st.store.series.last_modified
                cached == IF use_cache(rec, last_modified) THEN load_cache_series(rec)
                          ELSE None
                fetched == IF remote.kind = "dict" THEN remote ELSE None
                metadata == IF cached # None THEN cached ELSE fetched
                cache == IF cached = None /\ fetched # None
                         THEN SavedFile(rec, fetched, "ok") ELSE rec
            IN  [pc |-> IF metadata = None THEN "done" ELSE "update",
                 st |-> [st EXCEPT !.cache = cache, !.local = metadata]]
      [] pc = "update" ->
            [pc |-> "episodes", st |-> [st EXCEPT !.store.series.tmdb = 1]]
      [] pc = "episodes" ->
            LET existing_episode_ids == {x.episode_id : x \in st.store.episodes}
                todo == episodes_to_insert(existing_episode_ids, st.local.episodes)
            IN  [pc |-> "stamp",
                 st |-> [st EXCEPT !.store.episodes = InsertEpisodes(@, todo, 1, 1, 1)]]
      [] OTHER ->
            [pc |-> "done", st |-> [st EXCEPT !.store.series.last_modified = now,
                                               !.local = None]]

ScriptStep(kind, pc, st, remote) ==
    CASE kind = "vod" -> VodStep(pc, st, remote)
      [] kind = "epg" -> EpgStep(pc, st, remote)
      [] OTHER -> SeriesStep(pc, st, remote)

\* the script run from pc to its end with nothing in between
RECURSIVE RunToEnd(_, _, _, _)
RunToEnd(kind, pc, st, remote) ==
    IF pc = "done" THEN st
    ELSE LET n == ScriptStep(kind, pc, st, remote)
         IN  RunToEnd(kind, n.pc, n.st, remote)

RsTake(n) ==
    /\ rs_pc' = n.pc
    /\ rs_st' = n.st
    /\ UNCHANGED <<now, rs_kind, rs_remote, rs_kills, mainVars, cmVars, ftVars, svVars,
                   fnVars, btVars>>

\* the next statement of the VOD synchronizer
RsVod == rs_kind = "vod" /\ rs_pc # "done" /\ RsTake(VodStep(rs_pc, rs_st, rs_remote))

\* the next statement of the EPG importer
RsEpg == rs_kind = "epg" /\ rs_pc # "done" /\ RsTake(EpgStep(rs_pc, rs_st, rs_remote))

\* the next statement of the series enrichment
RsSeries ==
    rs_kind = "series" /\ rs_pc # "done" /\ RsTake(SeriesStep(rs_pc, rs_st, rs_remote))

\* the process is killed; what was committed and the cache file stay, the
\* local variables are gone, and the script is started again
RsKill ==
    /\ rs_pc \notin {"idle", "done"}
    /\ rs_kills < MaxKills
    /\ rs_kills' = rs_kills + 1
    /\ rs_pc' = "idle"
    /\ rs_st' = [rs_st EXCEPT !.local = None]
    /\ UNCHANGED <<now, rs_kind, rs_remote, mainVars, cmVars, ftVars, svVars, fnVars, btVars>>

RsInit ==
    /\ rs_kind = "vod"
    /\ rs_remote = ListOf(<<>>)
    /\ rs_st = StartOf("vod")
    /\ rs_pc = "idle"
    /\ rs_kills = 0

FnInit ==
    /\ fn_in = None
    /\ fn_out = None

\* ---------------------------------------------------------------------
\* One per-server call over a listing of several batches
\* (process_streams_for_server of updatemovies.py and updatelive.py,
\* process_series_for_server).  The listing has bt_n records with the
\* remote ids 1..bt_n, none of them stored.
\* ---------------------------------------------------------------------
BatchSyncs == {"vod", "series", "live"}

\* listings that end with a full batch and listings that end one record
\* into a batch
BatchLens ==
    {b * batch_size : b \in 1..(MaxBatches - 1)}
        \cup {((b - 1) * batch_size) + 1 : b \in 1..MaxBatches}

\* the store write that fails: none, the INSERT of the first record of a
\* batch (sqlite3.Error, caught by insert_stream / insert_series), or
\* the commit that follows a batch
BatchFaults ==
    {[kind |-> "none", batch |-> 0]}
        \cup [kind : {"insert", "commit"}, batch : 1..MaxBatches]

\* total_batches = (len(streams) + batch_size - 1) // batch_size
total_batches(n) == (n + batch_size - 1) \div batch_size

\* streams[start_idx:end_idx] of batch batch_num, as positions
batch_positions(n, batch_num) ==
    LET start_idx == batch_num * batch_size
        end_idx == IF (batch_num + 1) * batch_size < n THEN (batch_num + 1) * batch_size
                   ELSE n
    IN  (start_idx + 1)..end_idx

\* the batch a position of the listing belongs to, counted from 1
batch_of(i) == ((i - 1) \div batch_size) + 1

\* the positions whose INSERT succeeds
batch_inserted(positions) ==
    {i \in positions :
        ~(bt_fault.kind = "insert" /\ i = ((bt_fault.batch - 1) * batch_size) + 1)}

\* the call up to the loop: the listing has been downloaded
BtBegin ==
    /\ bt_pc = "idle"
    /\ bt_pc' = "loop"
    /\ bt_k' = 0
    /\ UNCHANGED <<bt_sync, bt_n, bt_fault, bt_rows, bt_pending, bt_result,
                   mainVars, cmVars, ftVars, svVars, rsVars, fnVars>>

\* updatemovies: `for stream_data in batch_streams` of one batch
BtBatchVod ==
    /\ bt_sync = "vod" /\ bt_pc = "loop" /\ bt_k < total_batches(bt_n)
    /\ bt_pending' = batch_inserted(batch_positions(bt_n, bt_k))
    /\ bt_pc' = "commit"
    /\ UNCHANGED <<bt_sync, bt_n, bt_fault, bt_k, bt_rows, bt_result,
                   mainVars, cmVars, ftVars, svVars, rsVars, fnVars>>

\* updateseries: `for series_data in batch_series` of one batch
BtBatchSeries ==
    /\ bt_sync = "series" /\ bt_pc = "loop" /\ bt_k < total_batches(bt_n)
    /\ bt_pending' = batch_inserted(batch_positions(bt_n, bt_k))
    /\ bt_pc' = "commit"
    /\ UNCHANGED <<bt_sync, bt_n, bt_fault, bt_k, bt_rows, bt_result,
                   mainVars, cmVars, ftVars, svVars, rsVars, fnVars>>

\* updatelive: `for stream_data in streams`, the whole listing
BtLoopLive ==
    /\ bt_sync = "live" /\ bt_pc = "loop"
    /\ bt_pending' = batch_inserted(1..bt_n)
    /\ bt_pc' = "commit"
    /\ UNCHANGED <<bt_sync, bt_n, bt_fault, bt_k, bt_rows, bt_result,
                   mainVars, cmVars, ftVars, svVars, rsVars, fnVars>>

\* self.conn.commit() after a batch of updatemovies or updateseries; when
\* it raises, `except Exception` rolls back and the totals stay 0
BtCommit ==
    /\ bt_sync \in {"vod", "series"} /\ bt_pc = "commit"
    /\ IF bt_fault.kind = "commit" /\ bt_fault.batch = bt_k + 1
       THEN /\ bt_pending' = {}
            /\ bt_pc' = "done"
            /\ bt_result' = <<0, 0, 0>>
            /\ UNCHANGED <<bt_rows, bt_k>>
       ELSE /\ bt_rows' = bt_rows \cup bt_pending
            /\ bt_pending' = {}
            /\ bt_k' = bt_k + 1
            /\ bt_pc' = "loop"
            /\ UNCHANGED bt_result
    /\ UNCHANGED <<bt_sync, bt_n, bt_fault, mainVars, cmVars, ftVars, svVars, rsVars, fnVars>>

\* the single self.conn.commit() of updatelive; when it raises, the
\* rollback takes every insert of the call back
BtCommitLive ==
    /\ bt_sync = "live" /\ bt_pc = "commit"
    /\ IF bt_fault.kind = "commit"
       THEN /\ bt_result' = <<0, Cardinality(bt_pending), 0>>
            /\ UNCHANGED bt_rows
       ELSE /\ bt_rows' = bt_rows \cup bt_pending
            /\ bt_result' = <<bt_n, Cardinality(bt_pending), 0>>
    /\ bt_pending' = {}
    /\ bt_pc' = "done"
    /\ UNCHANGED <<bt_sync, bt_n, bt_fault, bt_k, mainVars, cmVars, ftVars, svVars,
                   rsVars, fnVars>>

\* after the last batch: the totals are assigned and returned
BtReturn ==
    /\ bt_sync \in {"vod", "series"} /\ bt_pc = "loop" /\ bt_k >= total_batches(bt_n)
    /\ bt_pc' = "done"
    /\ bt_result' = <<bt_n, Cardinality(bt_rows), 0>>
    /\ UNCHANGED <<bt_sync, bt_n, bt_fault, bt_k, bt_rows, bt_pending,
                   mainVars, cmVars, ftVars, svVars, rsVars, fnVars>>

BtInit ==
    /\ bt_sync = "vod"
    /\ bt_n = 1
    /\ bt_fault = [kind |-> "none", batch |-> 0]
    /\ bt_pc = "idle"
    /\ bt_k = 0
    /\ bt_rows = {}
    /\ bt_pending = {}
    /\ bt_result = <<0, 0, 0>>

BenchInit == RsInit /\ FnInit /\ BtInit

\* ---------------------------------------------------------------------
\* The URL builders.  A URL is the sequence of its parts: an optional
\* scheme "http://" or "https://", the host "h", ":" and a port, "/" and
\* a page.  The port column of a server is NULL ("None") or a number.
\* ---------------------------------------------------------------------
Schemes == {"http://", "https://"}

ServerUrls ==
    { s \o h \o p \o t :
        s \in {<<>>, <<"http://">>, <<"https://">>},
        h \in {<<"h">>},
        p \in {<<>>, <<":", "81">>},
        t \in {<<>>, <<"/">>} }

ServerPorts == {"None", "80", "443", "8080"}

\* base_url.startswith(('http://', 'https://'))
startswith_scheme(u) == Len(u) > 0 /\ u[1] \in Schemes

\* if not base_url.startswith(...): base_url = f"http://{base_url}"
with_scheme(u) == IF startswith_scheme(u) THEN u ELSE <<"http://">> \o u

\* ':' in base_url.split('://', 1)[1]
colon_after_scheme(base) == \E i \in 2..Len(base) : base[i] = ":"

\* base_url.rstrip('/')
RECURSIVE rstrip_slash(_)
rstrip_slash(u) ==
    IF Len(u) > 0 /\ u[Len(u)] = "/" THEN rstrip_slash(SubSeq(u, 1, Len(u) - 1))
    ELSE u

\* the network location of a URL without its scheme: what precedes the path
RECURSIVE netloc(_)
netloc(rest) ==
    IF rest = <<>> \/ Head(rest) = "/" THEN <<>>
    ELSE <<Head(rest)>> \o netloc(Tail(rest))

\* urljoin(base_url, '/page'): an absolute path replaces the path of the base
urljoin(base, page) == <<Head(base)>> \o netloc(Tail(base)) \o <<"/", page>>

\* updatecats.build_api_url, updateseries.build_api_url, build_epg_url:
\* `if port and port != 80`, then urljoin
build_with_urljoin(server, page) ==
    LET base == with_scheme(server.url)
        ported == IF server.port # "None" /\ server.port # "80"
                        /\ ~colon_after_scheme(base)
                  THEN base \o <<":", server.port>> ELSE base
    IN  urljoin(ported, page)

build_api_url_cats(server) == build_with_urljoin(server, "player_api.php")

build_api_url_series(server) == build_with_urljoin(server, "player_api.php")

build_epg_url(server) == build_with_urljoin(server, "xmltv.php")

\* updatelive.build_api_url: `if port not in [80, 443] and ':' not in ...`,
\* without a test that the port is set
build_api_url_live(server) ==
    LET base == with_scheme(server.url)
        ported == IF server.port \notin {"80", "443"} /\ ~colon_after_scheme(base)
                  THEN base \o <<":", server.port>> ELSE base
    IN  rstrip_slash(ported) \o <<"/", "player_api.php">>

\* updatemovies.build_api_url and the URL of the two detail fetchers:
\* `if port and port not in (80, 443)`, rstrip('/'), f"{base_url}/player_api.php"
build_api_url_vod(server) ==
    LET base == with_scheme(server.url)
        ported == IF server.port # "None" /\ server.port \notin {"80", "443"}
                        /\ ~colon_after_scheme(base)
                  THEN base \o <<":", server.port>> ELSE base
    IN  rstrip_slash(ported) \o <<"/", "player_api.php">>

fetch_metadata_url(server) == build_api_url_vod(server)

fetch_series_metadata_url(server) == build_api_url_vod(server)

UrlOut(builder, page, url) ==
    [kind |-> "url", builder |-> builder, page |-> page, url |-> url]

UrlCats ==
    /\ fn_out.kind = "none"
    /\ fn_out' = UrlOut("cats", "player_api.php", build_api_url_cats(fn_in))
    /\ UNCHANGED <<fn_in, mainVars, cmVars, ftVars, svVars, rsVars, btVars>>

UrlLive ==
    /\ fn_out.kind = "none"
    /\ fn_out' = UrlOut("live", "player_api.php", build_api_url_live(fn_in))
    /\ UNCHANGED <<fn_in, mainVars, cmVars, ftVars, svVars, rsVars, btVars>>

UrlVod ==
    /\ fn_out.kind = "none"
    /\ fn_out' = UrlOut("vod", "player_api.php", build_api_url_vod(fn_in))
    /\ UNCHANGED <<fn_in, mainVars, cmVars, ftVars, svVars, rsVars, btVars>>

UrlSeries ==
    /\ fn_out.kind = "none"
    /\ fn_out' = UrlOut("series", "player_api.php", build_api_url_series(fn_in))
    /\ UNCHANGED <<fn_in, mainVars, cmVars, ftVars, svVars, rsVars, btVars>>

UrlEpg ==
    /\ fn_out.kind = "none"
    /\ fn_out' = UrlOut("epg", "xmltv.php", build_epg_url(fn_in))
    /\ UNCHANGED <<fn_in, mainVars, cmVars, ftVars, svVars, rsVars, btVars>>

UrlMovieDetail ==
    /\ fn_out.kind = "none"
    /\ fn_out' = UrlOut("movie_detail", "player_api.php", fetch_metadata_url(fn_in))
    /\ UNCHANGED <<fn_in, mainVars, cmVars, ftVars, svVars, rsVars, btVars>>

UrlSeriesDetail ==
    /\ fn_out.kind = "none"
    /\ fn_out' = UrlOut("series_detail", "player_api.php",
                        fetch_series_metadata_url(fn_in))
    /\ UNCHANGED <<fn_in, mainVars, cmVars, ftVars, svVars, rsVars, btVars>>

\* ---------------------------------------------------------------------
\* The probes on one HTTP response
\* ---------------------------------------------------------------------
\* how the GET of a probe ends: a status line, or no response at all
ProbeStatuses == {"200", "206", "404", "timeout"}

\* the body of a response: a JSON object with user_info and server_info
\* (what an Xtream server sends for valid credentials), with one of the
\* two, with neither, a JSON list with or without elements, a JSON null
\* or number, or text that is not JSON
ProbeBodies ==
    {"both", "user_info", "server_info", "neither", "list", "empty_list", "scalar",
     "not_json"}

\* response.raise_for_status() lets every status below 400 pass
raise_for_status_passes(resp) == resp.status \in {"200", "206"}

\* response.json() of the probe, as the answer the probes look at
json_of_probe(body) ==
    CASE body \in {"both", "user_info"} -> "user_info"
      [] body = "server_info" -> "server_info"
      [] body = "neither" -> "neither"
      [] body \in {"list", "empty_list", "scalar"} -> "scalar"
      [] OTHER -> "error"

\* response.json() of the get_series request the series probe sends
json_of_listing(body) ==
    CASE body = "list" -> ListOf(<<Rec(1)>>)
      [] body = "empty_list" -> ListOf(<<>>)
      [] body = "not_json" -> [kind |-> "error"]
      [] body = "scalar" -> [kind |-> "scalar"]
      [] OTHER -> [kind |-> "dict"]

\* updatelive.test_server_connection: `isinstance(data, dict) and
\* ('user_info' in data or 'server_info' in data)`
test_server_connection_live(answer) ==
    IF answer \in {"user_info", "server_info"} THEN "True" ELSE "False"

\* the four probes from the GET to the return value
probe_cats(resp) ==
    IF raise_for_status_passes(resp)
    THEN test_server_connection_cats(json_of_probe(resp.body)) ELSE "False"

\* `if response.status_code != 200: return False`
probe_vod(resp) ==
    IF resp.status = "200"
    THEN test_server_connection_vod(json_of_probe(resp.body)) ELSE "False"

probe_series(resp) ==
    IF raise_for_status_passes(resp)
    THEN test_server_connection_series(json_of_listing(resp.body)) ELSE "False"

probe_live(resp) ==
    IF raise_for_status_passes(resp)
    THEN test_server_connection_live(json_of_probe(resp.body)) ELSE "False"

ProbeOut(sync, value) == [kind |-> "probe", sync |-> sync, value |-> value]

ProbeCats ==
    /\ fn_out.kind = "none"
    /\ fn_out' = ProbeOut("cats", probe_cats(fn_in))
    /\ UNCHANGED <<fn_in, mainVars, cmVars, ftVars, svVars, rsVars, btVars>>

ProbeVod ==
    /\ fn_out.kind = "none"
    /\ fn_out' = ProbeOut("vod", probe_vod(fn_in))
    /\ UNCHANGED <<fn_in, mainVars, cmVars, ftVars, svVars, rsVars, btVars>>

ProbeSeries ==
    /\ fn_out.kind = "none"
    /\ fn_out' = ProbeOut("series", probe_series(fn_in))
    /\ UNCHANGED <<fn_in, mainVars, cmVars, ftVars, svVars, rsVars, btVars>>

ProbeLive ==
    /\ fn_out.kind = "none"
    /\ fn_out' = ProbeOut("live", probe_live(fn_in))
    /\ UNCHANGED <<fn_in, mainVars, cmVars, ftVars, svVars, rsVars, btVars>>

\* ---------------------------------------------------------------------
\* The file of a cache record.  Text is the sequence of its parts; md5 is
\* taken to be one-to-one, so a key is the text it is the digest of.
\* ---------------------------------------------------------------------
KeyUrls == {<<"h">>, <<"h", "_", "x">>}

KeyUsers == {<<"u">>, <<"x", "_", "u">>}

\* the scope of a cache record: the cache it belongs to, the server's url
\* and username, and the content type, the category scope or the remote
\* item id
CacheScopes ==
    [cache : {"categories"}, url : KeyUrls, user : KeyUsers, sub : ContentTypes]
    \cup [cache : {"vod_streams", "live_streams"}, url : KeyUrls, user : KeyUsers,
          sub : {"all", "5"}]
    \cup [cache : {"series"}, url : KeyUrls, user : KeyUsers, sub : {""}]
    \cup [cache : {"movie_metadata", "series_metadata"}, url : KeyUrls, user : KeyUsers,
          sub : {"1", "2"}]

\* hashlib.md5(key_data.encode()).hexdigest()
md5(key_data) == key_data

\* _generate_cache_key of the four synchronizers
_generate_cache_key_cats(server, content_type) ==
    md5(server.url \o <<"_">> \o server.user \o <<"_", content_type>>)

_generate_cache_key_vod(server, category_id) ==
    md5(server.url \o <<"_">> \o server.user \o <<"_", "vod", "_", "streams", "_", category_id>>)

_generate_cache_key_live(server, category_id) ==
    md5(server.url \o <<"_">> \o server.user \o <<"_", "live", "_", "streams", "_", category_id>>)

_generate_cache_key_series(server) ==
    md5(server.url \o <<"_">> \o server.user \o <<"_", "series">>)

\* _get_cache_file_path: cache_dir / f"{cache_key}.pkl"
_get_cache_file_path(cache_dir, cache_key) == [dir |-> cache_dir, name |-> cache_key]

\* load_cache / save_cache of the two enrichers: CACHE_DIR / f"{stream_id}.pkl"
detail_cache_file(cache_dir, item_id) == [dir |-> cache_dir, name |-> <<item_id>>]

KeyOut(a, b) == [kind |-> "keys", a |-> a, b |-> b]

\* the file of the second record, whichever cache it belongs to
cache_file_of(sc) ==
    CASE sc.cache = "categories" ->
             _get_cache_file_path(sc.cache, _generate_cache_key_cats(sc, sc.sub))
      [] sc.cache = "vod_streams" ->
             _get_cache_file_path(sc.cache, _generate_cache_key_vod(sc, sc.sub))
      [] sc.cache = "live_streams" ->
             _get_cache_file_path(sc.cache, _generate_cache_key_live(sc, sc.sub))
      [] sc.cache = "series" ->
             _get_cache_file_path(sc.cache, _generate_cache_key_series(sc))
      [] OTHER -> detail_cache_file(sc.cache, sc.sub)

KeyCats ==
    /\ fn_out.kind = "none" /\ fn_in[1].cache = "categories"
    /\ fn_out' = KeyOut(_get_cache_file_path("categories",
                            _generate_cache_key_cats(fn_in[1], fn_in[1].sub)),
                        cache_file_of(fn_in[2]))
    /\ UNCHANGED <<fn_in, mainVars, cmVars, ftVars, svVars, rsVars, btVars>>

KeyVod ==
    /\ fn_out.kind = "none" /\ fn_in[1].cache = "vod_streams"
    /\ fn_out' = KeyOut(_get_cache_file_path("vod_streams",
                            _generate_cache_key_vod(fn_in[1], fn_in[1].sub)),
                        cache_file_of(fn_in[2]))
    /\ UNCHANGED <<fn_in, mainVars, cmVars, ftVars, svVars, rsVars, btVars>>

KeyLive ==
    /\ fn_out.kind = "none" /\ fn_in[1].cache = "live_streams"
    /\ fn_out' = KeyOut(_get_cache_file_path("live_streams",
                            _generate_cache_key_live(fn_in[1], fn_in[1].sub)),
                        cache_file_of(fn_in[2]))
    /\ UNCHANGED <<fn_in, mainVars, cmVars, ftVars, svVars, rsVars, btVars>>

KeySeries ==
    /\ fn_out.kind = "none" /\ fn_in[1].cache = "series"
    /\ fn_out' = KeyOut(_get_cache_file_path("series", _generate_cache_key_series(fn_in[1])),
                        cache_file_of(fn_in[2]))
    /\ UNCHANGED <<fn_in, mainVars, cmVars, ftVars, svVars, rsVars, btVars>>

KeyMovieDetail ==
    /\ fn_out.kind = "none" /\ fn_in[1].cache = "movie_metadata"
    /\ fn_out' = KeyOut(detail_cache_file("movie_metadata", fn_in[1].sub),
                        cache_file_of(fn_in[2]))
    /\ UNCHANGED <<fn_in, mainVars, cmVars, ftVars, svVars, rsVars, btVars>>

KeySeriesDetail ==
    /\ fn_out.kind = "none" /\ fn_in[1].cache = "series_metadata"
    /\ fn_out' = KeyOut(detail_cache_file("series_metadata", fn_in[1].sub),
                        cache_file_of(fn_in[2]))
    /\ UNCHANGED <<fn_in, mainVars, cmVars, ftVars, svVars, rsVars, btVars>>

\* ---------------------------------------------------------------------
\* parse_duration (updatemovies.py).  A text is the sequence of its
\* characters.
\* ---------------------------------------------------------------------
DigitChars == <<"0", "1", "2", "3", "4", "5", "6", "7", "8", "9">>

IsDigitChar(c) == \E i \in 1..Len(DigitChars) : DigitChars[i] = c

DigitValue(c) == (CHOOSE i \in 1..Len(DigitChars) : DigitChars[i] = c) - 1

\* str.isdigit(), and the texts int() accepts among those of the model
isdigit(s) == Len(s) > 0 /\ \A i \in 1..Len(s) : IsDigitChar(s[i])

\* int(s) for a text of digits
RECURSIVE int_of(_)
int_of(s) ==
    IF s = <<>> THEN 0
    ELSE int_of(SubSeq(s, 1, Len(s) - 1)) * 10 + DigitValue(s[Len(s)])

\* str(n) for a natural number
RECURSIVE decimal(_)
decimal(n) ==
    IF n < 10 THEN <<DigitChars[n + 1]>>
    ELSE decimal(n \div 10) \o <<DigitChars[(n % 10) + 1]>>

\* f"{n:02d}"
fmt02d(n) == IF n < 10 THEN <<"0">> \o decimal(n) ELSE decimal(n)

\* s.strip()
RECURSIVE strip(_)
strip(s) ==
    IF Len(s) > 0 /\ s[1] = " " THEN strip(Tail(s))
    ELSE IF Len(s) > 0 /\ s[Len(s)] = " " THEN strip(SubSeq(s, 1, Len(s) - 1))
    ELSE s

\* s.split(':')
RECURSIVE split_colon(_)
split_colon(s) ==
    IF \A i \in 1..Len(s) : s[i] # ":" THEN <<s>>
    ELSE LET i == CHOOSE k \in 1..Len(s) :
                      s[k] = ":" /\ \A j \in 1..(k - 1) : s[j] # ":"
         IN  <<SubSeq(s, 1, i - 1)>> \o split_colon(SubSeq(s, i + 1, Len(s)))

\* what parse_duration returns: (seconds or None, text or None)
DurResult(has_seconds, seconds, has_formatted, formatted) ==
    [has_seconds |-> has_seconds, seconds |-> seconds,
     has_formatted |-> has_formatted, formatted |-> formatted]

\* the seconds of a duration that counts the minutes only
total_seconds_without_hours(hours, minutes, seconds) == (minutes * 60) + seconds

\* total_seconds = (hours * 3600) + (minutes * 60) + seconds
total_seconds(hours, minutes, seconds) == (hours * 3600) + (minutes * 60) + seconds

parse_duration(duration_str) ==
    IF duration_str = <<>> THEN DurResult(FALSE, 0, FALSE, <<>>)
    ELSE
    LET text == strip(duration_str)
        parts == split_colon(text)
        n == Len(parts)
    IN  IF isdigit(text)
        THEN LET seconds == int_of(text)
                 hours == seconds \div 3600
                 minutes == (seconds % 3600) \div 60
                 secs == seconds % 60
             IN  DurResult(TRUE, seconds, TRUE,
                           fmt02d(hours) \o <<":">> \o fmt02d(minutes) \o <<":">> \o fmt02d(secs))
        ELSE IF n >= 2 /\ (n > 2 => isdigit(parts[1])) /\ isdigit(parts[n - 1])
                    /\ isdigit(parts[n])
        THEN DurResult(TRUE,
                       total_seconds(IF n > 2 THEN int_of(parts[1]) ELSE 0,
                                     int_of(parts[n - 1]), int_of(parts[n])),
                       TRUE, text)
        ELSE DurResult(FALSE, 0, TRUE, text)

\* the texts given to parse_duration
DurationParts ==
    {<<"0">>, <<"1">>, <<"0", "1">>, <<"0", "2">>, <<"0", "3">>, <<"5", "9">>, <<"7", "5">>}

DurationTexts ==
    {decimal(n) : n \in 0..MaxSeconds}
    \cup {a \o <<":">> \o b \o <<":">> \o c :
            a \in DurationParts, b \in DurationParts, c \in DurationParts}
    \cup {b \o <<":">> \o c : b \in DurationParts, c \in DurationParts}
    \cup {<<>>, <<"a">>, <<":">>, <<"1", ":", "a">>, <<"1", ":", ":", "3">>,
          <<"0", "0", "7">>, <<" ", "1", ":", "2", ":", "3">>,
          <<"1", ":", "2", ":", "3", ":", "4">>}

\* parse_duration on the text of a listing record
DurParse ==
    /\ fn_out.kind = "none"
    /\ fn_out' = [kind |-> "duration", first |-> parse_duration(fn_in)]
    /\ UNCHANGED <<fn_in, mainVars, cmVars, ftVars, svVars, rsVars, btVars>>

\* parse_duration on the text an earlier call returned
DurParseFormatted ==
    /\ fn_out.kind = "duration" /\ fn_out.first.has_formatted
    /\ fn_out' = [kind |-> "reparsed", first |-> fn_out.first,
                  second |-> parse_duration(fn_out.first.formatted)]
    /\ UNCHANGED <<fn_in, mainVars, cmVars, ftVars, svVars, rsVars, btVars>>

\* ---------------------------------------------------------------------
\* _extract_year (create_strm_files.py)
\* ---------------------------------------------------------------------
\* release dates a title row can hold: none, a date, a year, shorter
\* texts, texts that do not begin with four digits
ReleaseDates ==
    {<<>>,
     <<"2", "0", "2", "3", "-", "0", "1", "-", "1", "5">>,
     <<"1", "9", "9", "9">>,
     <<"2", "0", "2">>,
     <<"N", "/", "A">>,
     <<"2", "0", "2", "x", "-", "0", "1">>,
     <<"0", "1", "-", "1", "5", "-", "2", "0", "2", "3">>,
     <<"x", "2", "0", "2", "3">>,
     <<"0", "0", "0", "0", "-", "0", "0">>}

\* names of titles, with and without a year in parentheses
TitleNames ==
    {<<"M">>,
     <<"M", " ", "(", "2", "0", "2", "1", ")">>,
     <<"M", " ", "2", "0", "2", "1">>,
     <<"M", " ", "(", "2", "0", "2", ")">>,
     <<"M", " ", "(", "2", "0", "2", "1", "4", ")">>,
     <<"(", "1", "9", "8", "4", ")", " ", "(", "2", "0", "2", "1", ")">>,
     <<"M", " ", "(", "H", "D", ")", " ", "(", "1", "9", "8", "4", ")">>,
     <<"M", " ", "(", "2", "0", "2", "1">>}

\* the positions where r'\((\d{4})\)' matches
year_matches(name) ==
    {i \in 1..(Len(name) - 5) :
        /\ name[i] = "("
        /\ \A k \in 1..4 : IsDigitChar(name[i + k])
        /\ name[i + 5] = ")"}

\* re.search(r'\((\d{4})\)', name) ... match.group(1)
search_year(name) ==
    LET i == CHOOSE k \in year_matches(name) : \A j \in year_matches(name) : k <= j
    IN  SubSeq(name, i + 1, i + 4)

\* an extraction that looks at the name before the release date
_extract_year_name_first(release_date, name) ==
    IF year_matches(name) # {} THEN search_year(name)
    ELSE IF Len(release_date) >= 4 /\ isdigit(SubSeq(release_date, 1, 4))
    THEN SubSeq(release_date, 1, 4)
    ELSE <<>>

_extract_year(release_date, name) ==
    IF Len(release_date) >= 4 /\ isdigit(SubSeq(release_date, 1, 4))
    THEN SubSeq(release_date, 1, 4)
    ELSE IF year_matches(name) # {} THEN search_year(name)
    ELSE <<>>

YearExtract ==
    /\ fn_out.kind = "none"
    /\ fn_out' = [kind |-> "year", year |-> _extract_year(fn_in.release_date, fn_in.name)]
    /\ UNCHANGED <<fn_in, mainVars, cmVars, ftVars, svVars, rsVars, btVars>>

\* ---------------------------------------------------------------------
\* The column values update_movie binds to its UPDATE
\* (updatemoviemetadata.py)
\* ---------------------------------------------------------------------
UPDATE_COLUMNS ==
    <<"custom_sid", "direct_source", "plot", "cast", "director", "genre", "release_date",
      "duration_secs", "duration", "video_quality", "tmdb_id", "o_name", "cover_big",
      "movie_image", "youtube_trailer", "actors", "description", "age", "country",
      "backdrop_path", "bitrate", "status", "runtime">>

\* the JSON values of a detail payload: a key the object does not have,
\* null, a text, a number, an array
JsonAbsent == [t |-> "absent", v |-> <<>>, items |-> <<>>]

JsonNull == [t |-> "null", v |-> <<>>, items |-> <<>>]

JsonText(s) == [t |-> "text", v |-> s, items |-> <<>>]

\* a number, held by its decimal digits
JsonNumber(n) == [t |-> "number", v |-> decimal(n), items |-> <<>>]

JsonList(items) == [t |-> "list", v |-> <<>>, items |-> items]

\* the keys the payloads of the model carry besides the columns
PayloadKeys == {"plot", "genre", "bitrate", "releasedate", "release_date"}

InfoValues ==
    {JsonAbsent, JsonNull, JsonText(<<"a">>), JsonNumber(12),
     JsonList(<<JsonText(<<"a">>), JsonNumber(12)>>)}

\* str(v): the text itself, the digits of a number
str(v) == v.v

\* ', '.join(str(v) for v in value)
RECURSIVE join(_)
join(value) ==
    IF Len(value) = 0 THEN <<>>
    ELSE IF Len(value) = 1 THEN str(value[1])
    ELSE str(value[1]) \o <<",", " ">> \o join(Tail(value))

\* dict.get(key), which is None for a key the dict does not have
get(dict, key) ==
    IF key \in DOMAIN dict /\ dict[key] # JsonAbsent THEN dict[key] ELSE JsonNull

\* normalize_value with None bound as it is
normalize_value_keeps_none(value, key) ==
    IF value.t = "list" THEN JsonText(join(value.items))
    ELSE value

normalize_value(value, key) ==
    IF value.t = "list" THEN JsonText(join(value.items))
    ELSE IF value = JsonNull
         THEN IF key \in {"duration_secs", "bitrate"} THEN JsonNumber(0)
              ELSE JsonText(<<>>)
    ELSE value

\* {**info, **movie_data}
merge(info, movie_data) ==
    [k \in DOMAIN info \cup DOMAIN movie_data |->
        IF k \in DOMAIN movie_data /\ movie_data[k] # JsonAbsent THEN movie_data[k]
        ELSE IF k \in DOMAIN info THEN info[k]
        ELSE JsonAbsent]

\* update_movie: flattened, after releasedate has become release_date
flattened_of(metadata) ==
    LET flattened == merge(metadata.info, metadata.movie_data)
    IN  IF "releasedate" \in DOMAIN flattened /\ flattened["releasedate"] # JsonAbsent
        THEN [k \in (DOMAIN flattened \cup {"release_date"}) \ {"releasedate"} |->
                 IF k = "release_date" THEN flattened["releasedate"] ELSE flattened[k]]
        ELSE flattened

\* update_movie: params, the value of every column of UPDATE_COLUMNS
update_movie_params(metadata) ==
    [i \in 1..Len(UPDATE_COLUMNS) |->
        normalize_value(get(flattened_of(metadata), UPDATE_COLUMNS[i]), UPDATE_COLUMNS[i])]

\* the detail payloads of the model: info and movie_data over a few keys
DetailObjects ==
    {[info |-> [plot |-> p, genre |-> g, bitrate |-> b, releasedate |-> rd,
                release_date |-> JsonText(<<"b">>)],
      movie_data |-> [plot |-> mp, bitrate |-> mb]] :
        p \in InfoValues, g \in InfoValues, b \in InfoValues,
        rd \in {JsonAbsent, JsonNull, JsonText(<<"c">>)},
        mp \in {JsonAbsent, JsonNull, JsonText(<<"d">>)},
        mb \in {JsonAbsent, JsonNumber(3)}}

MovieParams ==
    /\ fn_out.kind = "none"
    /\ fn_out' = [kind |-> "params", params |-> update_movie_params(fn_in)]
    /\ UNCHANGED <<fn_in, mainVars, cmVars, ftVars, svVars, rsVars, btVars>>

\* ---------------------------------------------------------------------
\* One per-server call of a listing synchronizer over a store that holds
\* rows already (process_streams_for_server of updatemovies.py and
\* updatelive.py, process_series_for_server)
\* ---------------------------------------------------------------------
ListingSyncs == {"vod", "series", "live"}

\* the table of the INSERT statement of insert_stream / insert_series
own_table(sync) ==
    CASE sync = "vod" -> "vod_streams"
      [] sync = "series" -> "series"
      [] OTHER -> "live_streams"

\* a listing record: stream_id / series_id (or none) and name
NamedRec(id, name) == [has_id |-> TRUE, id |-> id, name |-> name]

UnnamedRec == [has_id |-> FALSE, id |-> 0, name |-> "new"]

NamedRecs == {NamedRec(1, "old"), NamedRec(1, "new"), NamedRec(2, "new"), UnnamedRec}

\* a row of the store; name stands for the columns besides the key
StoreRow(table, server_id, remote_id, name) ==
    [table |-> table, server_id |-> server_id, remote_id |-> remote_id, name |-> name]

\* the rows the store holds whatever the entity tables hold: the two
\* servers and an episode of series 1
FixedRows ==
    {StoreRow("servers", 1, 0, "old"), StoreRow("servers", 2, 0, "old"),
     StoreRow("episodes", 1, 1, "old")}

\* the entity rows a store can hold when the call starts
EntityRows ==
    {StoreRow(own_table(sync), s, 1, "old") : sync \in ListingSyncs, s \in {1, 2}}

\* the step of the loop with an UPDATE for a record whose row exists
listing_record_step_updates(rows, table, server_id, rec) ==
    IF ~rec.has_id THEN rows
    ELSE IF \E r \in rows : r.table = table /\ r.server_id = server_id
                              /\ r.remote_id = rec.id
    THEN {IF r.table = table /\ r.server_id = server_id /\ r.remote_id = rec.id
          THEN [r EXCEPT !.name = rec.name] ELSE r : r \in rows}
    ELSE rows \cup {StoreRow(table, server_id, rec.id, rec.name)}

\* one step of `for stream_data in ...`: a record without identifier is
\* skipped, stream_exists / series_exists skips a record whose row is
\* there, insert_stream / insert_series adds the row of any other
listing_record_step(rows, table, server_id, rec) ==
    IF ~rec.has_id THEN rows
    ELSE IF \E r \in rows : r.table = table /\ r.server_id = server_id
                              /\ r.remote_id = rec.id
    THEN rows
    ELSE rows \cup {StoreRow(table, server_id, rec.id, rec.name)}

RECURSIVE listing_records(_, _, _, _, _)
listing_records(rows, table, server_id, items, i) ==
    IF i > Len(items) THEN rows
    ELSE listing_records(listing_record_step(rows, table, server_id, items[i]),
                         table, server_id, items, i + 1)

\* process_streams_for_server / process_series_for_server for server 1:
\* the loop and its commit, or the rollback when the commit raises
listing_call(sync, store, items, commit) ==
    IF Len(items) = 0 THEN store
    ELSE IF commit = "ok" THEN listing_records(store, own_table(sync), 1, items, 1)
    ELSE store

ListingInputs ==
    [sync : ListingSyncs,
     store : {FixedRows \cup rows : rows \in SUBSET EntityRows},
     items : {<<>>} \cup {<<a>> : a \in NamedRecs}
                    \cup {<<a, b>> : a \in NamedRecs, b \in NamedRecs},
     commit : {"ok", "raises"}]

ListVod ==
    /\ fn_out.kind = "none"
    /\ fn_in.sync = "vod"
    /\ fn_out' = [kind |-> "store",
                  store |-> listing_call("vod", fn_in.store, fn_in.items, fn_in.commit)]
    /\ UNCHANGED <<fn_in, mainVars, cmVars, ftVars, svVars, rsVars, btVars>>

ListSeries ==
    /\ fn_out.kind = "none"
    /\ fn_in.sync = "series"
    /\ fn_out' = [kind |-> "store",
                  store |-> listing_call("series", fn_in.store, fn_in.items, fn_in.commit)]
    /\ UNCHANGED <<fn_in, mainVars, cmVars, ftVars, svVars, rsVars, btVars>>

ListLive ==
    /\ fn_out.kind = "none"
    /\ fn_in.sync = "live"
    /\ fn_out' = [kind |-> "store",
                  store |-> listing_call("live", fn_in.store, fn_in.items, fn_in.commit)]
    /\ UNCHANGED <<fn_in, mainVars, cmVars, ftVars, svVars, rsVars, btVars>>

\* ---------------------------------------------------------------------
\* The purge of expired cache files at the start of a synchronizer run
\* ---------------------------------------------------------------------
\* a *.pkl file of the cache directory: whether _is_cache_valid says it
\* has expired, and whether unlink() can remove it
PklFiles == [expired : BOOLEAN, removable : BOOLEAN]

\* the directory as glob("*.pkl") yields it
CacheDirs == UNION {[1..n -> PklFiles] : n \in 0..MaxFiles}

\* the for loop of _clear_expired_cache from file i on: the positions of
\* the files that stay.  The try statement encloses the loop, so the
\* exception of an unlink() ends the loop.
RECURSIVE clear_from(_, _)
clear_from(files, i) ==
    IF i > Len(files) THEN {}
    ELSE IF ~files[i].expired THEN {i} \cup clear_from(files, i + 1)
    ELSE IF files[i].removable THEN clear_from(files, i + 1)
    ELSE i..Len(files)

_clear_expired_cache(files) == clear_from(files, 1)

PurgeOut(sync, remaining) ==
    [kind |-> "purged", sync |-> sync, remaining |-> remaining, proceeds |-> TRUE]

\* download_all_categories up to get_servers
PurgeCats ==
    /\ fn_out.kind = "none"
    /\ fn_out' = PurgeOut("cats", _clear_expired_cache(fn_in))
    /\ UNCHANGED <<fn_in, mainVars, cmVars, ftVars, svVars, rsVars, btVars>>

\* download_all_streams of updatemovies.py up to get_servers
PurgeVod ==
    /\ fn_out.kind = "none"
    /\ fn_out' = PurgeOut("vod", _clear_expired_cache(fn_in))
    /\ UNCHANGED <<fn_in, mainVars, cmVars, ftVars, svVars, rsVars, btVars>>

\* download_all_streams of updatelive.py up to get_servers
PurgeLive ==
    /\ fn_out.kind = "none"
    /\ fn_out' = PurgeOut("live", _clear_expired_cache(fn_in))
    /\ UNCHANGED <<fn_in, mainVars, cmVars, ftVars, svVars, rsVars, btVars>>

\* download_all_series up to get_servers: no file is looked at
PurgeSeries ==
    /\ fn_out.kind = "none"
    /\ fn_out' = PurgeOut("series", 1..Len(fn_in))
    /\ UNCHANGED <<fn_in, mainVars, cmVars, ftVars, svVars, rsVars, btVars>>

\* ---------------------------------------------------------------------
\* The counts one per-server call returns (process_categories_for_server,
\* process_streams_for_server of updatemovies.py and of updatelive.py)
\* ---------------------------------------------------------------------
\* the listings of the server: records with remote id 1 or 2 or without id
TripleListings ==
    UNION {[1..n -> {Rec(1), Rec(2), NoIdRec}] : n \in 0..2}

\* the remote ids that have rows before the call
TripleStored == {{}, {1}, {1, 2}}

\* which commit of the call raises (database locked, disk full): none,
\* or the first, second or third
TripleFaults == 0..3

StreamRowsOf(ids) ==
    {[id |-> i, server_id |-> VodServer, stream_id |-> i] : i \in ids}

CategoryRowsOf(ids) ==
    {[id |-> (3 * (i - 1)) + k, server_id |-> CatServer, category_id |-> i,
      content_type |-> CtOrder[k]] : i \in ids, k \in 1..Len(CtOrder)}

Triple(sync, before, after, downloaded, new, existing) ==
    [kind |-> "triple", sync |-> sync, added |-> Cardinality(after \ before),
     downloaded |-> downloaded, inserted |-> new, existing |-> existing]

\* updatemovies.process_streams_for_server: the totals are assigned after
\* the last batch; an exception rolls back and leaves them 0
process_streams_for_server_vod(rows, streams, fault) ==
    LET out == VodBatches([rows |-> rows, new |-> 0, existing |-> 0], streams, 0, {})
    IN  IF Len(streams) = 0 THEN Triple("vod", rows, rows, 0, 0, 0)
        ELSE IF fault = 1 THEN Triple("vod", rows, rows, 0, 0, 0)
        ELSE Triple("vod", rows, out.rows, Len(streams), out.new, out.existing)

\* updatelive.process_streams_for_server: total_new and total_existing
\* are counted in the loop, total_downloaded is assigned after the commit
process_streams_for_server_live(rows, streams, fault) ==
    LET out == VodLoop([rows |-> rows, new |-> 0, existing |-> 0], streams, 1,
                       Len(streams), {})
    IN  IF Len(streams) = 0 THEN Triple("live", rows, rows, 0, 0, 0)
        ELSE IF fault = 1 THEN Triple("live", rows, rows, 0, out.new, out.existing)
        ELSE Triple("live", rows, out.rows, Len(streams), out.new, out.existing)

\* updatecats.process_categories_for_server from content type k on: the
\* counts of a content type are added to the totals after its commit
RECURSIVE categories_from(_, _, _, _, _)
categories_from(acc, cats, k, fault, before) ==
    IF k > Len(CtOrder) \/ (Len(cats) > 0 /\ fault = k)
    THEN Triple("cats", before, acc.rows, acc.downloaded, acc.new, acc.existing)
    ELSE IF Len(cats) = 0
    THEN categories_from(acc, cats, k + 1, fault, before)
    ELSE LET out == CatLoop([rows |-> acc.rows, new |-> 0, existing |-> 0], cats, 1,
                            CtOrder[k], {}, {})
         IN  categories_from([rows |-> out.rows,
                              downloaded |-> acc.downloaded + Len(cats),
                              new |-> acc.new + out.new,
                              existing |-> acc.existing + out.existing],
                             cats, k + 1, fault, before)

process_categories_for_server_counts(rows, cats, fault) ==
    categories_from([rows |-> rows, downloaded |-> 0, new |-> 0, existing |-> 0],
                    cats, 1, fault, rows)

TripleCats ==
    /\ fn_out.kind = "none"
    /\ fn_out' = process_categories_for_server_counts(CategoryRowsOf(fn_in.stored),
                                                       fn_in.listing, fn_in.fault)
    /\ UNCHANGED <<fn_in, mainVars, cmVars, ftVars, svVars, rsVars, btVars>>

TripleVod ==
    /\ fn_out.kind = "none"
    /\ fn_out' = process_streams_for_server_vod(StreamRowsOf(fn_in.stored),
                                                 fn_in.listing, fn_in.fault)
    /\ UNCHANGED <<fn_in, mainVars, cmVars, ftVars, svVars, rsVars, btVars>>

TripleLive ==
    /\ fn_out.kind = "none"
    /\ fn_out' = process_streams_for_server_live(StreamRowsOf(fn_in.stored),
                                                  fn_in.listing, fn_in.fault)
    /\ UNCHANGED <<fn_in, mainVars, cmVars, ftVars, svVars, rsVars, btVars>>

\* ---------------------------------------------------------------------
\* Specifications, one per subsystem
\* ---------------------------------------------------------------------
\* the single-purpose specifications at rest
RestInit == CmInit /\ FtInit /\ SvInit /\ BenchInit

\* every subsystem but the single-purpose specifications at rest
MainInit ==
    now = 0 /\ EpgInit /\ DrvInit /\ CacheInit /\ CatInit /\ VodInit /\ MmInit /\ SmInit

InitAll == MainInit /\ RestInit

\* every subsystem but the pure functions at rest
FnRest == MainInit /\ CmInit /\ FtInit /\ SvInit /\ RsInit /\ BtInit

InitEpg == InitAll

NextEpg == EpgMain \/ EpgInsertCommit \/ EpgCrash \/ EpgTick

SpecEpg == InitEpg /\ [][NextEpg]_vars

InitDriver == InitAll

NextDriver ==
    run_library_update \/ run_initial_setup \/ DrvStep \/ DrvReturnTrue \/ DrvAgain

SpecDriver == InitDriver /\ [][NextDriver]_vars

InitCache == InitAll

NextCache ==
    CacheSaveListing \/ CacheLoadListing \/ CacheSaveDetail \/ CacheLoadDetail
        \/ CacheTick

SpecCache == InitCache /\ [][NextCache]_vars

\* the category synchronizer against a server whose answers are fixed
InitCats ==
    /\ now = 0 /\ EpgInit /\ DrvInit /\ CacheInit /\ VodInit /\ MmInit /\ SmInit /\ RestInit
    /\ categories = {}
    /\ cat_remote \in [ContentTypes -> CatPayloads]
    /\ cat_pc = 0
    /\ cat_tot = <<0, 0, 0>>
    /\ cat_result = "none"
    /\ cat_resp = [ct \in ContentTypes |-> "none"]
    /\ cat_wrote = {}
    /\ cat_before = {}
    /\ cat_probed = FALSE
    /\ cat_calls = 0
    /\ cat_missed = {}

NextCats == CatBegin \/ CatProcessType \/ CatTick

SpecCats == InitCats /\ [][NextCats]_vars

\* the VOD synchronizer against a server whose listing is fixed
InitVod ==
    /\ now = 0 /\ EpgInit /\ DrvInit /\ CacheInit /\ CatInit /\ MmInit /\ SmInit /\ RestInit
    /\ vod_streams = {}
    /\ vod_cache = NoRecord
    /\ vod_remote \in VodPayloads
    /\ vod_runs = 0
    /\ vod_synced = 0
    /\ vod_result = "none"

NextVod == download_all_streams \/ VodTick

SpecVod == InitVod /\ [][NextVod]_vars

\* one title enrichment pass; the servers' answers and the outcomes of
\* the cache writes are fixed by the environment
InitMovieMeta ==
    /\ now = 0 /\ EpgInit /\ DrvInit /\ CacheInit /\ CatInit /\ VodInit /\ SmInit /\ RestInit
    /\ mm_movies = MovieRows
    /\ mm_remote \in [Servers -> {"dict", "list"}]
    /\ mm_how \in [1..Cardinality(MovieRows) -> SaveOutcomes]
    /\ mm_phase = "idle"
    /\ mm_cands = <<>>
    /\ mm_pc = <<>>
    /\ mm_meta = <<>>
    /\ mm_lock = 0
    /\ mm_start = [rows |-> MovieRows, cache |-> [id \in StreamIds |-> NoRecord]]

NextMovieMeta ==
    \/ MmMain
    \/ MmLoad
    \/ MmFetch
    \/ MmAcquire
    \/ MmWrite
    \/ MmReturn

SpecMovieMeta == InitMovieMeta /\ [][NextMovieMeta]_vars

\* series enrichment passes against servers whose answer is fixed
InitSeriesMeta ==
    /\ now = 0 /\ EpgInit /\ DrvInit /\ CacheInit /\ CatInit /\ VodInit /\ MmInit /\ RestInit
    /\ sm_series = SeriesRows
    /\ sm_episodes = {}
    /\ sm_cache = [id \in SeriesIds |-> NoRecord]
    /\ sm_remote \in SeriesPayloads
    /\ sm_phase = "idle"
    /\ sm_passes = 0
    /\ sm_cands = <<>>
    /\ sm_pc = <<>>
    /\ sm_meta = <<>>
    /\ sm_todo = <<>>
    /\ sm_counts = <<>>
    /\ sm_dbw = 0
    /\ sm_runs = <<>>
    /\ sm_sent = <<>>
    /\ sm_totals = <<0, 0>>
    /\ sm_has_errors = FALSE

NextSeriesMeta ==
    SmMain \/ SmLoad \/ SmFetch \/ SmGrant \/ SmBusy \/ SmUpdateCommit \/ SmScan
        \/ SmInsertCommit \/ SmLastModCommit \/ SmReturn \/ SmTick

SpecSeriesMeta == InitSeriesMeta /\ [][NextSeriesMeta]_vars

\* the category an inserted record gets, for every category_id a record
\* can carry and every categories table
InitCatMap ==
    /\ MainInit /\ FtInit /\ SvInit /\ BenchInit
    /\ cm_in \in CategoryInputs
    /\ cm_cats \in CategoryTables
    /\ cm_out = [sync |-> "none", inserted |-> FALSE, mapped |-> FALSE, category |-> Null]

NextCatMap == CmInsertVod \/ CmInsertLive \/ CmInsertSeries

SpecCatMap == InitCatMap /\ [][NextCatMap]_vars

\* one fetch, for every sequence of things its requests can meet
InitFetch ==
    /\ MainInit /\ CmInit /\ SvInit /\ BenchInit
    /\ ft_kind \in {"movie", "series", "listing"}
    /\ ft_env \in [1..retries -> Outcomes]
    /\ ft_build \in Builds
    /\ ft_attempts = 0
    /\ ft_delay = 1
    /\ ft_waits = <<>>
    /\ ft_result = "pending"

NextFetch == FtAttempt \/ FtListing

SpecFetch == InitFetch /\ [][NextFetch]_vars

\* one run of one synchronizer; the servers' answers and the state of
\* the listing caches are the environment's
InitServers ==
    /\ MainInit /\ CmInit /\ FtInit /\ BenchInit
    /\ sv_sync \in Synchronizers
    /\ sv_env \in [1..Len(ActiveServers) -> [probe : ProbeAnswers, listing : ListingAnswers]]
    /\ sv_cache \in [1..Len(ActiveServers) -> {NoRecord, CachedListing}]
    /\ sv_start = sv_cache
    /\ sv_rows = {}
    /\ sv_pc = "idle"
    /\ sv_i = 1
    /\ sv_visited = <<>>
    /\ sv_probed = {}
    /\ sv_ok = 0
    /\ sv_result = "none"

NextServers == SvBegin \/ SvCats \/ SvVod \/ SvSeries \/ SvLive \/ SvReturn

SpecServers == InitServers /\ [][NextServers]_vars

\* a run of one script against a server whose answer is fixed, killed at
\* most MaxKills times
InitRestart ==
    /\ MainInit /\ CmInit /\ FtInit /\ SvInit /\ FnInit /\ BtInit
    /\ rs_kind \in Scripts
    /\ rs_remote \in RemotesOf(rs_kind)
    /\ rs_st = StartOf(rs_kind)
    /\ rs_pc = "idle"
    /\ rs_kills = 0

NextRestart == RsVod \/ RsEpg \/ RsSeries \/ RsKill

SpecRestart == InitRestart /\ [][NextRestart]_vars

\* the URL builders over every server row of the bounded shapes
InitUrl ==
    /\ FnRest
    /\ fn_in \in [url : ServerUrls, port : ServerPorts]
    /\ fn_out = None

NextUrl ==
    UrlCats \/ UrlLive \/ UrlVod \/ UrlSeries \/ UrlEpg \/ UrlMovieDetail
        \/ UrlSeriesDetail

SpecUrl == InitUrl /\ [][NextUrl]_vars

\* the probes over every response of the bounded shapes
InitProbe ==
    /\ FnRest
    /\ fn_in \in [status : ProbeStatuses, body : ProbeBodies]
    /\ fn_out = None

NextProbe == ProbeCats \/ ProbeVod \/ ProbeSeries \/ ProbeLive

SpecProbe == InitProbe /\ [][NextProbe]_vars

\* the files of two cache records, over every pair of scopes
InitKey ==
    /\ FnRest
    /\ fn_in \in CacheScopes \X CacheScopes
    /\ fn_out = None

NextKey == KeyCats \/ KeyVod \/ KeyLive \/ KeySeries \/ KeyMovieDetail \/ KeySeriesDetail

SpecKey == InitKey /\ [][NextKey]_vars

\* parse_duration over the bounded texts
InitDuration ==
    /\ FnRest
    /\ fn_in \in DurationTexts
    /\ fn_out = None

NextDuration == DurParse \/ DurParseFormatted

SpecDuration == InitDuration /\ [][NextDuration]_vars

\* _extract_year over the bounded release dates and names
InitYear ==
    /\ FnRest
    /\ fn_in \in [release_date : ReleaseDates, name : TitleNames]
    /\ fn_out = None

NextYear == YearExtract

SpecYear == InitYear /\ [][NextYear]_vars

InitParams ==
    /\ FnRest
    /\ fn_in \in DetailObjects
    /\ fn_out = None

NextParams == MovieParams

SpecParams == InitParams /\ [][NextParams]_vars

InitListing ==
    /\ FnRest
    /\ fn_in \in ListingInputs
    /\ fn_out = None

NextListing == ListVod \/ ListSeries \/ ListLive

SpecListing == InitListing /\ [][NextListing]_vars

\* the start of a synchronizer run over every cache directory
InitPurge ==
    /\ FnRest
    /\ fn_in \in CacheDirs
    /\ fn_out = None

NextPurge == PurgeCats \/ PurgeVod \/ PurgeLive \/ PurgeSeries

SpecPurge == InitPurge /\ [][NextPurge]_vars

\* one per-server call over every store, listing and failing commit
InitTriple ==
    /\ FnRest
    /\ fn_in \in [stored : TripleStored, listing : TripleListings, fault : TripleFaults]
    /\ fn_out = None

NextTriple == TripleCats \/ TripleVod \/ TripleLive

SpecTriple == InitTriple /\ [][NextTriple]_vars

\* one per-server call over every listing length and failing write
InitBatch ==
    /\ MainInit /\ CmInit /\ FtInit /\ SvInit /\ RsInit /\ FnInit
    /\ bt_sync \in BatchSyncs
    /\ bt_n \in BatchLens
    \* the one commit of updatelive follows the last record
    /\ bt_fault \in {f \in BatchFaults :
                        /\ f.kind # "none" => f.batch <= total_batches(bt_n)
                        /\ (bt_sync = "live" /\ f.kind = "commit")
                              => f.batch = total_batches(bt_n)}
    /\ bt_pc = "idle"
    /\ bt_k = 0
    /\ bt_rows = {}
    /\ bt_pending = {}
    /\ bt_result = <<0, 0, 0>>

NextBatch ==
    BtBegin \/ BtBatchVod \/ BtBatchSeries \/ BtLoopLive \/ BtCommit \/ BtCommitLive
        \/ BtReturn

SpecBatch == InitBatch /\ [][NextBatch]_vars

\* ---------------------------------------------------------------------
\* Properties of the EPG importer
\* ---------------------------------------------------------------------

\* C3: when the importer's probe or fetch fails, or no guide entry can be
\* parsed, the run deletes nothing: the EpgEntry rows after the run are
\* the rows before the run.
C3_FailedImportKeepsRows ==
    epg_outcome \in {"probe_failed", "fetch_failed", "no_entries"}
        => epg_data = epg_before

C3_Witness ==
    /\ epg_outcome = "fetch_failed"
    /\ epg_before # {}
    /\ "get" \in epg_sent

\* C4: a successful import replaces the guide atomically: whatever a
\* concurrent reader or a restart after a crash observes while the import
\* is under way is the complete previous set or the complete new set.
C4_AtomicReplace ==
    epg_pc = "cleared"
        => epg_data \in {epg_before, InsertOrIgnore({}, epg_entries)}

\* C7: a cache record is only ever written from a payload that passed
\* shape validation; for the EPG cache: only from a guide that parses.
C7_OnlyValidatedPayloadsCached ==
    epg_cache.exists => GuideParses(epg_cache.xml)

\* ---------------------------------------------------------------------
\* Properties of the drivers
\* ---------------------------------------------------------------------

\* C8: in a driver run, a failing or empty step never prevents the other
\* steps from running: when the run ends, every listed step was executed.
C8_EveryStepStillRuns ==
    (drv_pc = "done" /\ drv_cb)
        => \A i \in 1..Len(drv_scripts) :
              \E j \in 1..Len(drv_ran) : drv_ran[j].script = drv_scripts[i]

\* ---------------------------------------------------------------------
\* Properties of the response caches
\* ---------------------------------------------------------------------

\* C5: a read of a listing cache or of the per-title detail cache returns
\* absent if and only if no record exists or now - captured_at > ttl
\* (ttl = 24 hours), for every record that can be read back; so a record
\* aged exactly ttl is still returned.
C5_AbsentIffMissingOrOlderThanTtl ==
    (cache_read.cache \in {"listing", "detail"}
        /\ (cache_read.existed => cache_read.readable))
    => ((cache_read.result = None)
            <=> (~cache_read.existed \/ cache_read.age > CACHE_EXPIRY))

\* ---------------------------------------------------------------------
\* Properties of the category synchronizer
\* ---------------------------------------------------------------------

\* C6: a content type whose categories response is malformed (JSON that
\* is not a list) gets no cache record and no category row from the call,
\* and when all the responses of the server are malformed the per-server
\* sync returns (0, 0, 0), inserts no category row and writes no cache
\* record.
C6_MalformedCategoriesNoEffect ==
    /\ \A ct \in ContentTypes :
          cat_resp[ct] = "dict"
              => /\ ct \notin cat_wrote
                 /\ {r \in categories : r.content_type = ct}
                        = {r \in cat_before : r.content_type = ct}
    /\ (cat_pc = 0 /\ \A ct \in ContentTypes : cat_resp[ct] = "dict")
          => /\ cat_result = <<0, 0, 0>>
             /\ categories = cat_before
             /\ cat_wrote = {}
             /\ \A ct \in ContentTypes : ~cat_cache[ct].exists

C6_Witness ==
    /\ cat_pc = 0
    /\ cat_probed
    /\ \A ct \in ContentTypes : cat_resp[ct] = "dict"

\* ---------------------------------------------------------------------
\* Properties of the VOD synchronizer
\* ---------------------------------------------------------------------
RowsOf(server_id, stream_id) ==
    {r \in vod_streams : r.server_id = server_id /\ r.stream_id = stream_id}

ListedIds(payload) ==
    IF payload.kind = "list"
    THEN {payload.items[i].id : i \in {j \in 1..Len(payload.items) : payload.items[j].has_id}}
    ELSE {}

\* C1: after at least one completed synchronizer run against unchanged
\* remote data the store holds exactly one row for every (server, remote
\* id) of the server's listing and never more than one row for any
\* (server, remote id), also when an id occurs twice in the listing or an
\* existence check fails.
C1_ExactlyOneRowPerRemoteId ==
    vod_synced >= 1
        => /\ \A R \in ListedIds(vod_remote) : Cardinality(RowsOf(VodServer, R)) = 1
           /\ \A R \in StreamIds : Cardinality(RowsOf(VodServer, R)) <= 1

\* ---------------------------------------------------------------------
\* Properties of the title enrichment
\* ---------------------------------------------------------------------

\* C2: whatever the interleaving of the workers, a finished enrichment
\* pass leaves every title row with the column values that processing
\* the same candidates one at a time leaves, also when candidates of
\* different servers carry the same remote stream id.
C2_ConcurrentEqualsSequential ==
    mm_phase = "done"
        => mm_movies = SequentialPass(mm_cands, 1, mm_start.rows, mm_start.cache)

\* ---------------------------------------------------------------------
\* Properties of the series enrichment
\* ---------------------------------------------------------------------
\* the candidates that are inside a store write: inside the execute of
\* a write statement, or between it and the commit
InStoreWrite ==
    {w \in DOMAIN sm_pc :
        sm_pc[w] \in {"upd_exec", "upd_tx", "ins_exec", "ins_tx", "lm_exec", "lm_tx"}}

\* C9: during an enrichment pass at most one worker at a time is inside
\* a store write (column update, episode batch insert, last-modified
\* update); the write transactions of different workers never overlap.
C9_SingleWriter == Cardinality(InStoreWrite) <= 1

EpisodeRows(series_id, n) ==
    {e \in sm_episodes : e.series_id = series_id /\ e.episode_id = IntId(n)}

\* C10: after any sequence of series enrichment passes the store holds
\* at most one episode row per (series, remote episode id), whether the
\* payload carries the id as a number or as numeric text, twice in one
\* payload, or two workers enrich the same series id concurrently.
C10_OneRowPerEpisode ==
    \A sid \in SeriesIds : \A n \in {1} : Cardinality(EpisodeRows(sid, n)) <= 1

\* ---------------------------------------------------------------------
\* Properties of the category of an inserted record
\* ---------------------------------------------------------------------
\* the default category of a record without a mapped category
DefaultCategory == IntId(0)

\* C11: in every entity synchronizer a listing record whose remote
\* category id is absent or has no entry in the category mapping is
\* inserted under the one default category value.
C11_UnmappedGetsDefaultCategory ==
    (cm_out.sync # "none" /\ ~cm_out.mapped)
        => cm_out.inserted /\ cm_out.category = DefaultCategory

\* ---------------------------------------------------------------------
\* Properties of a fetch
\* ---------------------------------------------------------------------

\* C12: a fetch, listing or detail, reports failure after a transient
\* failure (timeout, connection error) only when that was its third
\* attempt, having waited 1 second and then 2 seconds between the
\* attempts; no fetch makes more than 3 attempts.
C12_TransientFailureRetried ==
    /\ ft_attempts <= 3
    /\ (ft_result = "failed" /\ ft_env[ft_attempts] \in Transient)
          => ft_attempts = 3 /\ ft_waits = <<1, 2>>

\* C13: an attempt that meets a body that is not JSON, or JSON of an
\* unexpected top-level type, is the last one of its fetch: the fetch
\* has failed, and no wait and no attempt follows.
C13_MalformedNotRetried ==
    \A i \in 1..ft_attempts :
        ft_env[i] \in Malformed \ (IF ft_kind = "listing" THEN {"list"} ELSE {})
            => /\ i = ft_attempts
               /\ ft_result = "failed"
               /\ Len(ft_waits) < i

\* the scopes the current call of the category synchronizer has sent a
\* fetch request for
CatFetched == {ct \in ContentTypes : cat_resp[ct] \in {"list", "dict", "error"}}

\* C14: when every cache scope the synchronizer needs for the server is
\* a hit the call sends no request, neither probe nor fetch; every
\* request it sends follows a cache miss of one of the server's scopes.
C14_NoRequestWhenAllCached ==
    /\ cat_probed => cat_missed # {}
    /\ CatFetched \subseteq cat_missed
    /\ cat_missed = {} => (~cat_probed /\ CatFetched = {})

C14_Witness ==
    /\ cat_pc = 0
    /\ cat_calls = 2
    /\ cat_missed = {}
    /\ \A ct \in ContentTypes : cat_resp[ct] = "hit"

\* ---------------------------------------------------------------------
\* Properties of the order of the driver steps
\* ---------------------------------------------------------------------
EntitySteps == {"updatelive", "updatemovies", "updateseries"}

\* C15: in every driver run, library update and initial setup, the
\* category synchronization step has completed before the live-channel,
\* VOD-title or series synchronization step starts.
C15_CategoriesBeforeEntities ==
    \A j \in 1..Len(drv_ran) :
        drv_ran[j].script \in EntitySteps
            => \E i \in 1..(j - 1) :
                  drv_ran[i].script = "updatecats" /\ drv_ran[i].result = "truthy"

C15_Witness ==
    /\ drv_pc = "done"
    /\ \E j \in 1..Len(drv_ran) : drv_ran[j].script = "updateseries"

\* ---------------------------------------------------------------------
\* Properties of a pass with a failing candidate
\* ---------------------------------------------------------------------
Failed == {w \in DOMAIN sm_pc : sm_pc[w] = "failed"}

C17_NoRowWithoutRemoteId ==
    \A r \in sv_rows :
        /\ r.remote_id # NullId
        /\ \E rec \in {Rec(1), Rec(2)} : r.remote_id = rec.id

C17_Witness ==
    /\ sv_pc = "done"
    /\ \E s \in DOMAIN sv_env :
          /\ sv_env[s].listing.kind = "list"
          /\ \E i \in 1..Len(sv_env[s].listing.items) :
                ~sv_env[s].listing.items[i].has_id
          /\ \E r \in sv_rows : r.server_id = s /\ r.remote_id = 1

\* C18: within one synchronizer run over several active servers, a server
\* that yields zero downloaded records (empty listing, failed probe,
\* failed fetch, malformed response) does not end the run: when the run
\* is over, every active server has had its turn.
C18_ZeroServerDoesNotEndRun ==
    sv_pc = "done" =>
        \A k \in 1..Len(ActiveServers) :
            \E j \in 1..Len(sv_visited) : sv_visited[j] = ActiveServers[k]

\* a finished run whose first server failed its probe and wrote nothing,
\* and whose second server has been processed into rows
C18_Witness ==
    /\ sv_pc = "done"
    /\ ActiveServers[1] \in sv_probed
    /\ sv_env[ActiveServers[1]].probe = "error"
    /\ \A r \in sv_rows : r.server_id # ActiveServers[1]
    /\ \E r \in sv_rows : r.server_id = ActiveServers[2]

\* C19: when the probe response of a server carries neither a user-info
\* nor a server-info marker, the synchronizer skips that server: no row
\* of that server is inserted and its cache record stays as it was.
C19_NoMarkerServerSkipped ==
    \A s \in sv_probed :
        sv_env[s].probe = "neither" =>
            /\ \A r \in sv_rows : r.server_id # s
            /\ sv_cache[s] = sv_start[s]

\* ---------------------------------------------------------------------
\* Properties of repeated enrichment
\* ---------------------------------------------------------------------
\* a series row both writes of process_series have reached
Enriched(r) == r.tmdb # 0 /\ r.last_modified # NoStamp

\* C20: enriching a row again with the same remote detail payload is
\* idempotent: a row that has been enriched keeps the value of every
\* column in every later step of the enrichment, the servers' answers
\* staying what they were.
C20_EnrichmentIdempotent ==
    [][\A r \in sm_series : Enriched(r) => r \in sm_series']_vars

\* ---------------------------------------------------------------------
\* Properties of a run that is killed and started again
\* ---------------------------------------------------------------------
\* C21: a run that was interrupted and then run again to completion
\* against the same remote data leaves the store one uninterrupted run
\* leaves: no row missing, duplicated or partial.
C21_RestartConverges ==
    rs_pc = "done" =>
        rs_st.store = RunToEnd(rs_kind, "idle", StartOf(rs_kind), rs_remote).store

\* ---------------------------------------------------------------------
\* Properties of the driver called without a progress callback
\* ---------------------------------------------------------------------
\* C22: calling the library-update driver without a progress callback
\* runs the steps and returns a success value as a call with a callback
\* does: the call ends with True or False after at least the first step
\* has run, never with an error.
C22_NoCallbackSameRun ==
    (drv_pc = "done" /\ ~drv_cb) =>
        /\ drv_result \in {"True", "False"}
        /\ Len(drv_ran) >= 1

\* ---------------------------------------------------------------------
\* Properties of the URL builders
\* ---------------------------------------------------------------------
\* the URL the specification describes for a server row and a page
SpecifiedUrl(server, page) ==
    LET scheme == IF startswith_scheme(server.url) THEN server.url[1] ELSE "http://"
        host == rstrip_slash(Tail(with_scheme(server.url)))
        embeds == \E i \in 1..Len(host) : host[i] = ":"
        explicit == server.port \notin {"None", "80", "443"} /\ ~embeds
    IN  <<scheme>> \o host \o (IF explicit THEN <<":", server.port>> ELSE <<>>)
            \o <<"/", page>>

\* C23: every URL builder returns a URL that starts with http:// when the
\* server URL has no scheme, carries the configured port exactly when the
\* port is set, is neither 80 nor 443 and the host embeds no port, and has
\* exactly one slash between the host and the page, with or without a
\* trailing slash in the server URL.
C23_UrlWellFormed ==
    fn_out.kind = "url" => fn_out.url = SpecifiedUrl(fn_in, fn_out.page)

\* ---------------------------------------------------------------------
\* Properties of the probes
\* ---------------------------------------------------------------------
\* C24: for every synchronizer the probe answers "reachable" exactly when
\* the response has a 2xx status and its body parses as a JSON object
\* with a user-info or a server-info marker; a non-2xx status, a body
\* that is not JSON, a JSON list and an object with neither marker are
\* "not reachable".
C24_ProbeReachableIffMarker ==
    fn_out.kind = "probe" =>
        (fn_out.value = "True" <=>
            /\ fn_in.status \in {"200", "206"}
            /\ fn_in.body \in {"both", "user_info", "server_info"})

\* ---------------------------------------------------------------------
\* Properties of the category mapping
\* ---------------------------------------------------------------------
\* C25: the category mapping takes a remote category id to the local row
\* id of the categories row of the same server, content type and remote
\* id: an inserted record whose remote category has such a row
\* references the local id of that row, whether the listing carries the
\* category id as a number or as text.
C25_MappedReferencesLocalRow ==
    (cm_out.sync # "none" /\ cm_out.mapped) =>
        \E r \in cm_cats :
            /\ r.content_type = cm_out.sync
            /\ r.category_id = cm_in.n
            /\ cm_out.category = IntId(r.id)

\* ---------------------------------------------------------------------
\* Properties of the cache keys
\* ---------------------------------------------------------------------
\* C26: two cache records share a key (a file) only if they have the same
\* cache scope: server url, username, content type and optional scope;
\* this includes the per-item detail payloads of different servers that
\* carry the same remote item id.
C26_SameKeySameScope ==
    fn_out.kind = "keys" => (fn_out.a = fn_out.b => fn_in[1] = fn_in[2])

\* ---------------------------------------------------------------------
\* Properties of parse_duration
\* ---------------------------------------------------------------------
\* a text of the form h:m:s, each part a run of decimal digits
ColonsOf(s) == {i \in 1..Len(s) : s[i] = ":"}

IsHMS(s) ==
    /\ Cardinality(ColonsOf(s)) = 2
    /\ \A i \in 1..Len(s) : s[i] = ":" \/ IsDigitChar(s[i])
    /\ s[1] # ":" /\ s[Len(s)] # ":"
    /\ \A i \in ColonsOf(s) : (i + 1) \notin ColonsOf(s)

HMSSeconds(s) ==
    LET i == CHOOSE k \in ColonsOf(s) : \A j \in ColonsOf(s) : k <= j
        j == CHOOSE k \in ColonsOf(s) : \A m \in ColonsOf(s) : m <= k
    IN  int_of(SubSeq(s, 1, i - 1)) * 3600 + int_of(SubSeq(s, i + 1, j - 1)) * 60
            + int_of(SubSeq(s, j + 1, Len(s)))

\* n seconds as zero-padded HH:MM:SS
Pad2(n) == IF n < 10 THEN <<"0", DigitChars[n + 1]>> ELSE decimal(n)

Rendered(n) ==
    Pad2(n \div 3600) \o <<":">> \o Pad2((n % 3600) \div 60) \o <<":">> \o Pad2(n % 60)

\* C27: on a text of the form h:m:s parse_duration returns
\* h*3600 + m*60 + s and the text unchanged; on a text of decimal digits n
\* it returns n and n rendered as zero-padded HH:MM:SS, and parsing the
\* rendered text returns n again.
C27_DurationRoundTrip ==
    /\ (fn_out.kind \in {"duration", "reparsed"} /\ IsHMS(fn_in)) =>
          /\ fn_out.first.has_seconds /\ fn_out.first.seconds = HMSSeconds(fn_in)
          /\ fn_out.first.has_formatted /\ fn_out.first.formatted = fn_in
    /\ (fn_out.kind \in {"duration", "reparsed"} /\ isdigit(fn_in)) =>
          /\ fn_out.first.has_seconds /\ fn_out.first.seconds = int_of(fn_in)
          /\ fn_out.first.has_formatted
          /\ fn_out.first.formatted = Rendered(int_of(fn_in))
    /\ (fn_out.kind = "reparsed" /\ isdigit(fn_in)) =>
          fn_out.second.has_seconds /\ fn_out.second.seconds = int_of(fn_in)

\* "3723" has been parsed into 3723 and 01:02:03, and 01:02:03 parsed again
C27_Witness ==
    /\ fn_out.kind = "reparsed"
    /\ fn_in = <<"3", "7", "2", "3">>
    /\ fn_out.first.formatted = <<"0", "1", ":", "0", "2", ":", "0", "3">>
    /\ fn_out.second.seconds = 3723

\* ---------------------------------------------------------------------
\* Properties of the year extraction
\* ---------------------------------------------------------------------
\* whether the text begins with four digits
BeginsWithYear(s) == Len(s) >= 4 /\ \A i \in 1..4 : IsDigitChar(s[i])

\* the four-digit groups in parentheses of a name, by position
YearGroups(s) ==
    {i \in 1..Len(s) :
        /\ i + 5 <= Len(s)
        /\ s[i] = "(" /\ s[i + 5] = ")"
        /\ \A k \in (i + 1)..(i + 4) : IsDigitChar(s[k])}

\* C28: the year extraction returns the first four characters of the
\* release date when they are four digits; otherwise the first four-digit
\* group in parentheses in the name; otherwise the empty text.
C28_YearExtraction ==
    fn_out.kind = "year" =>
        IF BeginsWithYear(fn_in.release_date)
        THEN fn_out.year = SubSeq(fn_in.release_date, 1, 4)
        ELSE IF YearGroups(fn_in.name) # {}
        THEN \E i \in YearGroups(fn_in.name) :
                /\ \A j \in YearGroups(fn_in.name) : i <= j
                /\ fn_out.year = SubSeq(fn_in.name, i + 1, i + 4)
        ELSE fn_out.year = <<>>

\* a release date with a year and a name with two other years: the
\* release date's year has been returned
C28_Witness ==
    /\ fn_out.kind = "year"
    /\ fn_in.release_date = <<"1", "9", "9", "9">>
    /\ Cardinality(YearGroups(fn_in.name)) = 2
    /\ fn_out.year = <<"1", "9", "9", "9">>

\* ---------------------------------------------------------------------
\* Properties of the purge of expired cache files
\* ---------------------------------------------------------------------
\* C29: before a synchronizer run the expired cache records are purged;
\* a record that cannot be removed does not abort the run, and every
\* expired record that can be removed has been removed when the run
\* goes on.
C29_ExpiredRecordsPurged ==
    fn_out.kind = "purged" =>
        /\ fn_out.proceeds
        /\ \A i \in 1..Len(fn_in) :
              (fn_in[i].expired /\ fn_in[i].removable) => i \notin fn_out.remaining

\* ---------------------------------------------------------------------
\* Properties of the counts of a per-server call
\* ---------------------------------------------------------------------
\* the records of a listing that are skipped because a row is stored:
\* the id had a row before the call or came earlier in the listing
SkippedAsStored(stored, listing) ==
    Cardinality({i \in 1..Len(listing) :
        /\ listing[i].has_id
        /\ \/ listing[i].id \in stored
           \/ \E j \in 1..(i - 1) : listing[j].has_id /\ listing[j].id = listing[i].id})

\* C30: in the triple (downloaded, inserted, alreadyExisting) a
\* per-server call returns, inserted is the number of rows the call has
\* durably added, alreadyExisting the number of records skipped because
\* they were stored, and inserted + alreadyExisting <= downloaded, also
\* when the call ends early by an error.
C30_TripleCountsRows ==
    fn_out.kind = "triple" =>
        /\ fn_out.inserted = fn_out.added
        /\ fn_out.inserted + fn_out.existing <= fn_out.downloaded
        /\ fn_in.fault = 0 =>
              fn_out.existing = SkippedAsStored(fn_in.stored, fn_in.listing)
                                    * (IF fn_out.sync = "cats" THEN Len(CtOrder) ELSE 1)

\* ---------------------------------------------------------------------
\* Properties of the batches of a per-server call
\* ---------------------------------------------------------------------
\* C31: every entity synchronizer commits its inserts in batches of at
\* most 1000 listing records: never more than 1000 rows wait for a
\* commit, and when a write of batch k has failed, every row the batches
\* before k inserted is stored.
C31_BatchesOfAtMostThousand ==
    /\ Cardinality(bt_pending) <= 1000
    /\ (bt_pc = "done" /\ bt_fault.kind # "none") =>
          \A i \in 1..bt_n : batch_of(i) < bt_fault.batch => i \in bt_rows

\* C32: after a store write of batch k has failed (an INSERT or the
\* commit), the call goes on: when it is over, the new records of the
\* batches after k are stored.
C32_LaterBatchesProcessed ==
    (bt_pc = "done" /\ bt_fault.kind # "none") =>
        \A i \in 1..bt_n : batch_of(i) > bt_fault.batch => i \in bt_rows

\* ---------------------------------------------------------------------
\* Properties of the listing cache record
\* ---------------------------------------------------------------------
\* C33: after a cache miss and a successful fetch of a JSON list the
\* payload is the record of the scope's key, and a lookup of the key
\* within the TTL of 24 hours is a hit that returns exactly the fetched
\* payload.
C33_LookupWithinTtlHits ==
    (vod_cache.exists /\ now - vod_cache.mtime <= 24 * 60 * 60) =>
        /\ vod_cache.data = vod_remote
        /\ _load_from_cache(vod_cache) = vod_remote


PayloadValue(metadata, column) ==
    LET of(key) ==
            IF key \in DOMAIN metadata.movie_data /\ metadata.movie_data[key] # JsonAbsent
            THEN metadata.movie_data[key]
            ELSE IF key \in DOMAIN metadata.info THEN metadata.info[key]
            ELSE JsonAbsent
    IN  IF column = "release_date" /\ of("releasedate") # JsonAbsent THEN of("releasedate")
        ELSE of(column)

\* C35: update_movie binds a value to every enrichment column, taken
\* from the merge of info and movie_data with movie_data first: a list as
\* one text of its items separated by ", ", an absent or null
\* duration_secs or bitrate as the number 0, every other absent or null
\* field as the empty text, any other value as it is; never null.
C35_ColumnsNormalized ==
    fn_out.kind = "params" =>
        /\ Len(fn_out.params) = Len(UPDATE_COLUMNS)
        /\ \A i \in 1..Len(UPDATE_COLUMNS) :
              LET column == UPDATE_COLUMNS[i]
                  v == PayloadValue(fn_in, column)
                  stored == fn_out.params[i]
              IN  /\ stored.t \in {"text", "number"}
                  /\ v.t = "list" =>
                        /\ stored.t = "text"
                        /\ Len(v.items) = 2 =>
                              stored.v = str(v.items[1]) \o <<",", " ">> \o str(v.items[2])
                  /\ v.t \in {"absent", "null"} =>
                        stored = IF column \in {"duration_secs", "bitrate"}
                                 THEN JsonNumber(0) ELSE JsonText(<<>>)
                  /\ v.t \in {"text", "number"} => stored = v

C35_Witness ==
    /\ fn_out.kind = "params"
    /\ fn_in.info.plot = JsonText(<<"a">>)
    /\ fn_in.movie_data.plot = JsonText(<<"d">>)
    /\ fn_in.info.genre.t = "list"
    /\ fn_in.info.bitrate = JsonNull
    /\ fn_in.movie_data.bitrate = JsonAbsent
    /\ fn_in.info.releasedate = JsonNull
    /\ \E i \in 1..Len(UPDATE_COLUMNS) :
          UPDATE_COLUMNS[i] = "plot" /\ fn_out.params[i] = JsonText(<<"d">>)
    /\ \E i \in 1..Len(UPDATE_COLUMNS) :
          UPDATE_COLUMNS[i] = "bitrate" /\ fn_out.params[i] = JsonNumber(0)
    /\ \E i \in 1..Len(UPDATE_COLUMNS) :
          UPDATE_COLUMNS[i] = "genre" /\ fn_out.params[i] = JsonText(<<"a", ",", " ", "1", "2">>)
    /\ \E i \in 1..Len(UPDATE_COLUMNS) :
          UPDATE_COLUMNS[i] = "release_date" /\ fn_out.params[i] = JsonText(<<>>)


\* ---------------------------------------------------------------------
\* Properties of a listing synchronizer over a store with rows
\* ---------------------------------------------------------------------
\* C36: a call of a listing synchronizer only adds rows to its own
\* entity table: every row the store held before is there afterwards
\* with all its values, also when the listing has the record under
\* another name or no longer has it, and every row that is new is a row
\* of the synchronizer's own table, never a server or an episode.
C36_OnlyAddsOwnRows ==
    fn_out.kind = "store" =>
        /\ fn_in.store \subseteq fn_out.store
        /\ \A r \in fn_out.store \ fn_in.store : r.table = own_table(fn_in.sync)

C36_Witness ==
    /\ fn_out.kind = "store"
    /\ fn_in.sync = "series"
    /\ fn_in.commit = "ok"
    /\ StoreRow("series", 1, 1, "old") \in fn_in.store
    /\ StoreRow("vod_streams", 1, 1, "old") \in fn_in.store
    /\ fn_in.items = <<NamedRec(1, "new"), NamedRec(2, "new")>>
    /\ StoreRow("series", 1, 2, "new") \in fn_out.store
    /\ StoreRow("series", 1, 1, "old") \in fn_out.store
    /\ StoreRow("episodes", 1, 1, "old") \in fn_out.store


\* ---------------------------------------------------------------------
\* Properties of the rows an enrichment writes
\* ---------------------------------------------------------------------
\* C37: the enrichment of the candidate (server S, remote id R) changes
\* only the row of server S with remote id R: in every step, a row that
\* changes is the row of the candidate whose update_movie call commits
\* in that step; the row another server has for the same remote id keeps
\* every column value.
C37_OnlyCandidateRowChanges ==
    [][\A r \in mm_movies :
          r \notin mm_movies' =>
              \E w \in DOMAIN mm_pc :
                  /\ mm_pc[w] = "locked" /\ mm_pc'[w] = "done"
                  /\ mm_cands[w].server_id = r.server_id
                  /\ mm_cands[w].stream_id = r.stream_id]_vars


\* ---------------------------------------------------------------------
\* Properties of the driver's return value
\* ---------------------------------------------------------------------
\* what the script function gives back when its run completes without
\* error: updatelive.main and defaultepggrabber.main end without a return
\* statement
NormalEnd(script) ==
    IF script \in {"updatelive", "defaultepggrabber"} THEN "falsy" ELSE "truthy"

\* C38: a driver run returns success exactly when every step completed
\* without error: a library update, with or without live TV, or an
\* initial setup whose steps have all completed normally has run every
\* listed step and returned True, and a run that returned True has run
\* every step to its normal end.
C38_SuccessIffAllStepsComplete ==
    (drv_pc = "done" /\ drv_cb) =>
        LET normal == \A j \in 1..Len(drv_ran) :
                          drv_ran[j].result = NormalEnd(drv_ran[j].script)
        IN  /\ normal => /\ Len(drv_ran) = Len(drv_scripts)
                         /\ drv_result = "True"
            /\ drv_result = "True" => normal /\ Len(drv_ran) = Len(drv_scripts)


C40_ProbeBeforeCache ==
    /\ (Len(epg_steps) >= 1 /\ epg_steps[1] = "head_failed") =>
          /\ epg_steps = <<"head_failed">>
          /\ epg_outcome = "probe_failed"
          /\ epg_sent = {"head"}
          /\ epg_pc = "idle" => epg_data = epg_before
          /\ epg_pc # "cleared"
    /\ \A i \in 1..Len(epg_steps) : epg_steps[i] = "cache" => i = 2

C40_Witness ==
    /\ epg_steps = <<"head_failed">>
    /\ epg_outcome = "probe_failed"
    /\ _is_cache_valid_epg(epg_cache)
    /\ parse_epg_xml(epg_cache.xml) # <<>>
    /\ epg_data # {}
    /\ epg_data = epg_before

====
